---- MODULE Spec2Model ----
(***************************************************************************)
(* A model of git-dit's issue data model: the ref namespace codec          *)
(* (lib/src/issue.rs), the issue handle and its bounded message walks      *)
(* (lib/src/issue.rs, lib/src/iter.rs), issue creation and discovery       *)
(* (lib/src/repository.rs), the reference collector (lib/src/gc.rs), the   *)
(* selection of a head by remote priority (src/gitext/reference.rs), the   *)
(* accumulation of trailer values (lib/src/trailer/accumulation.rs), the   *)
(* metadata filter (src/filters.rs, src/trailer/filter.rs), the trailer    *)
(* parser (src/trailer/mod.rs), the blocks of a message                    *)
(* (lib/src/message/block.rs) and the iterators over references            *)
(* (lib/src/iter.rs).                                                      *)
(*                                                                         *)
(* Commits are numbered 1, 2, ... in creation order; parents[c] is the     *)
(* ordered parent list of commit c.  A reference name is the sequence of   *)
(* its '/'-separated segments; refs maps each existing name to its target. *)
(***************************************************************************)
EXTENDS Integers, Sequences, FiniteSets, TLC

\* ------------------------------------------------------------------ bounds
MaxCommits == 3
MaxParents == 2
MaxOps == 4
MaxSegments == 5
MaxValues == 4
MaxPrios == 2
MaxCandidates == 4
MaxMessages == 2
MaxAtoms == 2

\* --------------------------------------------------------------- constants
OidLen == 40

Remotes == {"origin"}

VARIABLES
    parents,    \* object store: parents[c] = ordered parent ids of commit c
    refs,       \* ref store: reference name -> target commit
    last,       \* the last operation performed and what it returned
    nops,       \* number of operations performed so far
    refname,    \* codec check: the reference name under classification
    classified, \* codec check: whether of_ref(refname) was applied, and its result
    accumulator,    \* accumulation check: a ValueAccumulator
    processed,      \* accumulation check: the values handed to it so far
    candidates,     \* selection check: the references offered to select_ref
    priorization,   \* selection check: the RemotePriorization in use
    selection,      \* selection check: whether select_ref ran and its result
    content,        \* filter check: author and trailers of each commit
    filtered,       \* filter check: the last MetadataFilter::filter call
    given,          \* parser check: the trailer to format
    formatted,      \* parser check: the text Display produced for it
    parsed,         \* parser check: what FromStr made of that text
    document,       \* block check: the lines handed to Blocks
    unread,         \* block check: the lines Blocks has not consumed yet
    blocks,         \* block check: the blocks returned so far, None included
    wrapped,        \* deletion check: the references handed to the iterator
    inner,          \* deletion check: those the iterator has not taken yet
    attempts,       \* deletion check: the delete calls made, with their outcome
    yielded,        \* deletion check: the items next() returned, None included
    revwalk,        \* referring check: the revwalk wrapped by RefsReferringTo
    commits_left,   \* referring check: the commits the revwalk has yet to emit
    watch_log,      \* referring check: the references given to watch_ref
    watch_map,      \* referring check: the map from commit to watched references
    current_refs,   \* referring check: the references stashed for the current commit
    reported        \* referring check: the items next() returned, None included

accumulation == <<accumulator, processed>>
selecting == <<candidates, priorization, selection>>
filtering == <<content, filtered>>
parsing == <<given, formatted, parsed>>
splitting == <<document, unread, blocks>>
deleting == <<wrapped, inner, attempts, yielded>>
referring == <<revwalk, commits_left, watch_log, watch_map, current_refs, reported>>

vars == <<parents, refs, last, nops, refname, classified,
          accumulation, selecting, filtering, parsing, splitting, deleting, referring>>

\* ------------------------------------------------------------ small helpers
Range(s) == {s[k] : k \in DOMAIN s}

RECURSIVE Rep(_, _)
Rep(d, n) == IF n = 0 THEN "" ELSE d \o Rep(d, n - 1)

RECURSIVE Reverse(_)
Reverse(s) == IF s = <<>> THEN <<>> ELSE Append(Reverse(Tail(s)), Head(s))

Commits == 1..Len(parents)

\* ------------------------------------------------------------ object ids
HexDigits == <<"a", "b", "c", "d", "e", "f", "1", "2", "3", "4", "5", "6", "7", "8", "9">>
UpperHexDigits == <<"A", "B", "C", "D", "E", "F", "1", "2", "3", "4", "5", "6", "7", "8", "9">>

OidSpace == 1..Len(HexDigits)

\* the 40 digit renderings of all ids, in lower and in upper case
LowerHex == [c \in OidSpace |-> Rep(HexDigits[c], OidLen)]
UpperHex == [c \in OidSpace |-> Rep(UpperHexDigits[c], OidLen)]

\* Oid's Display: 40 lowercase hex digits
OidStr(c) == LowerHex[c]

\* the same id spelled with upper case digits (accepted by Oid::from_str)
OidStrUpper(c) == UpperHex[c]

\* a hex string that is too short to be a full id, and a 40 character
\* string that is not hexadecimal
ShortHex == "abc"
NonHex40 == Rep("z", OidLen)

NoOid == 0

\* Oid::from_str: parses hexadecimal text of at most 40 digits, else fails
OidFromStr(s) ==
    IF \E c \in OidSpace : s \in {OidStr(c), OidStrUpper(c)}
    THEN [ok |-> TRUE, id |-> CHOOSE c \in OidSpace : s \in {OidStr(c), OidStrUpper(c)}]
    ELSE IF s = ShortHex
    THEN [ok |-> TRUE, id |-> NoOid]
    ELSE [ok |-> FALSE, id |-> NoOid]

\* id_from_str without its length test
id_from_str_AnyLength(s) == OidFromStr(s)

id_from_str(s) ==
    IF Len(s) = OidLen THEN OidFromStr(s) ELSE [ok |-> FALSE, id |-> NoOid]

\* ------------------------------------------------------- ref name codec
None == [some |-> FALSE, id |-> NoOid, type |-> "None"]
Some(id, type) == [some |-> TRUE, id |-> id, type |-> type]

glob_part(type) ==
    CASE type = "Any"  -> <<"**">>
      [] type = "Head" -> <<"head">>
      [] type = "Leaf" -> <<"leaves", "*">>

\* the issue id and the "dit" denominator preceding the denominating end
of_ref_issue(parts, type) ==
    IF parts /= <<>> /\ id_from_str(parts[1]).ok
          /\ \E k \in 2..Len(parts) : parts[k] = "dit"
    THEN Some(id_from_str(parts[1]).id, type)
    ELSE None

of_ref(name) ==
    LET parts == Reverse(name)      \* refname.rsplit('/')
    IN  IF parts = <<>> THEN None
        ELSE IF parts[1] = "head" THEN of_ref_issue(Tail(parts), "Head")
        ELSE IF id_from_str(parts[1]).ok
        THEN IF Len(parts) >= 2 /\ parts[2] = "leaves"
             THEN of_ref_issue(Tail(Tail(parts)), "Leaf")
             ELSE None
        ELSE None

ref_part(i) == OidStr(i)

HeadName(i) == <<"refs", "dit", ref_part(i), "head">>
LeafName(i, m) == <<"refs", "dit", ref_part(i), "leaves", OidStr(m)>>

\* a refspec that drops the "dit" segment
RemoteName_NoDit(r, name) == <<"refs", "remotes", r>> \o Tail(Tail(name))

\* the refspec +refs/dit/*:refs/remotes/<remote>/dit/*
RemoteName(r, name) == <<"refs", "remotes", r>> \o Tail(name)

\* ------------------------------------------------------------ ref globs
\* Glob matching as done by the ref store for references_glob: "**/"
\* matches zero or more whole segments, a trailing "**" matches the rest,
\* "*" matches any text (the match is not path-aware, so also across '/').
RECURSIVE GlobMatch(_, _)
GlobMatch(pat, name) ==
    IF pat = <<>> THEN name = <<>>
    ELSE IF Head(pat) = "**"
    THEN IF Len(pat) = 1 THEN name /= <<>>
         ELSE \E k \in 0..Len(name) :
                 GlobMatch(Tail(pat), SubSeq(name, k + 1, Len(name)))
    ELSE IF Head(pat) = "*"
    THEN IF Len(pat) = 1 THEN name /= <<>>
         ELSE \E k \in 1..Len(name) :
                 GlobMatch(Tail(pat), SubSeq(name, k + 1, Len(name)))
    ELSE name /= <<>> /\ Head(name) = Head(pat)
            /\ GlobMatch(Tail(pat), Tail(name))

references_glob(glob) == {n \in DOMAIN refs : GlobMatch(glob, n)}

\* Revwalk::push_glob: "refs/" is implied if not given in the glob
push_glob(glob) ==
    LET g == IF Head(glob) = "refs" THEN glob ELSE <<"refs">> \o glob
    IN  {refs[n] : n \in references_glob(g)}

Targets(names) == {refs[n] : n \in names}

\* ------------------------------------------------------------ issue handle
heads(i) == references_glob(<<"**", "dit", ref_part(i), "head">>)

has_local_head(i) == HeadName(i) \in DOMAIN refs

\* local_refs with a glob that does not name the issue
local_refs_AnyIssue(i, type) ==
    references_glob(<<"refs", "dit", "*">> \o glob_part(type))

local_refs(i, type) ==
    references_glob(<<"refs", "dit", ref_part(i)>> \o glob_part(type))

remote_refs(i, type) ==
    references_glob(<<"refs", "remotes", "*", "dit", ref_part(i)>> \o glob_part(type))

all_refs(i, type) ==
    references_glob(<<"**", "dit", ref_part(i)>> \o glob_part(type))

find_issue(i) == heads(i) /= {}

\* the issues a handle can be obtained for
Issues == {i \in Commits : find_issue(i)}

\* ------------------------------------------------- reference selection
NoRemote == ""

\* ReferrenceExt::remote: the third segment of a name below refs/remotes/
remote(name) ==
    IF Len(name) >= 3 /\ name[1] = "refs" /\ name[2] = "remotes"
    THEN name[3]
    ELSE NoRemote

is_remote(name) == Len(name) >= 3 /\ name[1] = "refs" /\ name[2] = "remotes"

NoPriority == [some |-> FALSE, prio |-> 0]
Priority(p) == [some |-> TRUE, prio |-> p]

\* RemotePriorization::priority_for_remote: the position, counted from 1,
\* of the first entry that is the remote's name or "*"
priority_for_remote(prios, r) ==
    LET hits == {k \in DOMAIN prios : prios[k] = r \/ prios[k] = "*"}
    IN  IF hits = {} THEN NoPriority
        ELSE Priority(CHOOSE k \in hits : \A h \in hits : k <= h)

\* RemotePriorization::priority_for_ref: 0 for a reference of no remote
\* a priorization that ranks local references behind every remote
priority_for_ref_LocalLast(prios, name) ==
    IF is_remote(name) THEN priority_for_remote(prios, remote(name))
    ELSE Priority(Len(prios) + 1)

priority_for_ref(prios, name) ==
    IF is_remote(name) THEN priority_for_remote(prios, remote(name))
    ELSE Priority(0)

NoRef == <<>>

\* ReferrencesExt::select_ref: of the candidates that have a priority, the
\* first one of the least priority value (min_by_key keeps the first minimum)
select_ref(cands, prios) ==
    LET rated == {k \in DOMAIN cands : priority_for_ref(prios, cands[k]).some}
        key(k) == priority_for_ref(prios, cands[k]).prio
        best == {k \in rated : \A j \in rated : key(k) <= key(j)}
    IN  IF rated = {} THEN NoRef
        ELSE cands[CHOOSE k \in best : \A j \in best : k <= j]

\* the orders an iterator over a set of references may produce them in
RECURSIVE Orderings(_)
Orderings(S) ==
    IF S = {} THEN {<<>>}
    ELSE UNION {{<<n>> \o t : t \in Orderings(S \ {n})} : n \in S}

\* what select_ref may return for references that come in no fixed order
selectable(names, prios) == {select_ref(c, prios) : c \in Orderings(names)}

\* RepositoryUtil::remote_priorization: the configured list, "*" by default
ConfiguredPrios == {<<"*">>, <<"upstream", "origin">>, <<"upstream">>}

\* ---------------------------------------------------------------- revwalk
\* all commits reachable from S along any parent, S included
RECURSIVE Reach(_)
Reach(S) ==
    LET N == S \cup UNION {Range(parents[c]) : c \in S}
    IN  IF N = S THEN S ELSE Reach(N)

FirstParents(S) == {parents[c][1] : c \in {d \in S : parents[d] /= <<>>}}

\* commits reachable from S along first parents without entering U
RECURSIVE FirstParentReach(_, _)
FirstParentReach(S, U) ==
    LET N == (S \cup FirstParents(S)) \ U
    IN  IF N = S THEN S ELSE FirstParentReach(N, U)

\* A revwalk is its pushed and hidden commits and its configuration.
Revwalk(pushed, hidden, first_parent) ==
    [pushed |-> pushed, hidden |-> hidden, first_parent |-> first_parent]

\* the commits a revwalk emits: everything reachable from the pushed
\* commits (along first parents only if simplified) that is not reachable
\* from a hidden commit
Emitted(w) ==
    LET U == Reach(w.hidden)
    IN  IF w.first_parent
        THEN FirstParentReach(w.pushed \ U, U)
        ELSE Reach(w.pushed) \ U

\* the parents the walk follows from c
Followed(w, c) ==
    IF w.first_parent THEN FirstParents({c}) ELSE Range(parents[c])

\* the sequences a topologically sorted revwalk may produce: no commit is
\* emitted before all of its emitted children are
RECURSIVE TopoOrders(_, _)
TopoOrders(w, E) ==
    IF E = {} THEN {<<>>}
    ELSE UNION {{<<c>> \o s : s \in TopoOrders(w, E \ {c})} :
                  c \in {d \in E : \A e \in E : d \notin Followed(w, e)}}

\* terminated_messages without hiding the parents of the initial message
terminated_messages_NoHide(i, pushed) == Revwalk(pushed, {}, TRUE)

\* Issue::terminated_messages: hide the parents of the initial message,
\* simplify first parents (sorting is topological)
terminated_messages(i, pushed) == Revwalk(pushed, Range(parents[i]), TRUE)

\* messages pushing the heads of the issue only
messages_HeadsOnly(i) ==
    terminated_messages(i, push_glob(<<"**", "dit", ref_part(i), "head">>))

messages(i) ==
    terminated_messages(i, push_glob(<<"**", "dit", ref_part(i), "**">>))

messages_from(i, m) == terminated_messages(i, {m})

\* the sequences Messages can yield for a walk
Yields(w) == TopoOrders(w, Emitted(w))

\* a walk from the message that follows every parent
first_parent_messages_AllParents(id) == Revwalk({id}, {}, FALSE)

\* RepositoryExt::first_parent_messages: a topologically sorted walk from
\* the message, simplified to first parents
first_parent_messages(id) == Revwalk({id}, {}, TRUE)

FoundIssue(i) == [ok |-> TRUE, err |-> "", id |-> i]
Failure(kind, id) == [ok |-> FALSE, err |-> kind, id |-> id]

\* the loop of issue_with_message over the ids the walk yields
RECURSIVE first_issue(_, _)
first_issue(ids, m) ==
    IF ids = <<>> THEN Failure("NoTreeInitFound", m)
    ELSE IF find_issue(Head(ids)) THEN FoundIssue(Head(ids))
    ELSE first_issue(Tail(ids), m)

\* RepositoryExt::issue_with_message: the results it can return, one for
\* each order in which the walk can yield
issue_with_message(m) ==
    {first_issue(ids, m) : ids \in Yields(first_parent_messages(m))}

\* an IssueMessagesIter that stops before the initial message
RECURSIVE until_any_initial_Exclusive(_)
until_any_initial_Exclusive(ids) ==
    IF ids = <<>> THEN <<>>
    ELSE IF find_issue(Head(ids)) THEN <<>>
    ELSE <<Head(ids)>> \o until_any_initial_Exclusive(Tail(ids))

\* IssueMessagesIter over the ids a walk yields: every id is passed on, and
\* the walk is reset after the first one that is an issue
RECURSIVE until_any_initial(_)
until_any_initial(ids) ==
    IF ids = <<>> THEN <<>>
    ELSE IF find_issue(Head(ids)) THEN <<Head(ids)>>
    ELSE <<Head(ids)>> \o until_any_initial(Tail(ids))

\* RepositoryExt::issue_messages_iter: the sequences it can yield
issue_messages_iter(m) ==
    {until_any_initial(ids) : ids \in Yields(first_parent_messages(m))}

\* ------------------------------------------------------ value accumulation
Policies == {"Latest", "List"}

NoValue == [some |-> FALSE, v |-> ""]
SomeValue(v) == [some |-> TRUE, v |-> v]

\* From<AccumulationPolicy> for ValueAccumulator: Latest(None) or List([])
from_policy(policy) == [policy |-> policy, value |-> NoValue, values |-> <<>>]

ValueAccumulator_default == from_policy("Latest")

\* a Latest accumulator that keeps the value processed last
process_Overwrite(a, new_value) ==
    IF a.policy = "Latest"
    THEN [a EXCEPT !.value = SomeValue(new_value)]
    ELSE [a EXCEPT !.values = Append(a.values, new_value)]

\* ValueAccumulator::process
process(a, new_value) ==
    IF a.policy = "Latest"
    THEN IF ~a.value.some THEN [a EXCEPT !.value = SomeValue(new_value)] ELSE a
    ELSE [a EXCEPT !.values = Append(a.values, new_value)]

\* IntoIterator for ValueAccumulator: the values it yields, in order
into_iter(a) ==
    IF a.policy = "Latest"
    THEN IF a.value.some THEN <<a.value.v>> ELSE <<>>
    ELSE a.values

\* ------------------------------------------------------------ trailers
\* Text is a sequence of characters.
Digits == <<"0", "1", "2", "3", "4", "5", "6", "7", "8", "9">>

IsDigits(t) == t /= <<>> /\ \A k \in DOMAIN t : t[k] \in Range(Digits)

\* the texts i64::from_str accepts: an optional sign and at least one digit
\* (the texts of the model are too short to overflow 64 bits)
IsNumber(t) ==
    \/ IsDigits(t)
    \/ t /= <<>> /\ t[1] \in {"+", "-"} /\ IsDigits(Tail(t))

DigitOf(ch) == (CHOOSE d \in DOMAIN Digits : Digits[d] = ch) - 1

RECURSIVE ParseDigits(_)
ParseDigits(t) ==
    IF t = <<>> THEN 0
    ELSE 10 * ParseDigits(SubSeq(t, 1, Len(t) - 1)) + DigitOf(t[Len(t)])

\* i64::from_str on a text IsNumber accepts
ParseInt(t) ==
    IF t[1] = "-" THEN 0 - ParseDigits(Tail(t))
    ELSE IF t[1] = "+" THEN ParseDigits(Tail(t))
    ELSE ParseDigits(t)

\* TrailerValue::from_slice: an integer if the text parses as one, else
\* the text
from_slice(t) ==
    IF IsNumber(t) THEN [int |-> TRUE, i |-> ParseInt(t), s |-> <<>>]
    ELSE [int |-> FALSE, i |-> 0, s |-> t]

RECURSIVE DecimalDigits(_)
DecimalDigits(n) ==
    IF n < 10 THEN <<Digits[n + 1]>>
    ELSE DecimalDigits(n \div 10) \o <<Digits[(n % 10) + 1]>>

\* Display for i64
Decimal(n) == IF n < 0 THEN <<"-">> \o DecimalDigits(0 - n) ELSE DecimalDigits(n)

\* Display for TrailerValue
to_string(v) == IF v.int THEN Decimal(v.i) ELSE v.s

\* str::contains
contains(text, pattern) ==
    \E k \in 0..(Len(text) - Len(pattern)) :
        SubSeq(text, k + 1, k + Len(pattern)) = pattern

\* Trailer::new
Trailer_new(key, text) == [key |-> key, value |-> from_slice(text)]

\* Display for Trailer: "<key>: <value>"
fmt(t) == t.key \o <<":", " ">> \o to_string(t.value)

\* the characters of the class [[:alnum:]-] that occur in the model
KeyChars == Range(Digits) \cup {"a", "b", "-"}

Whitespace == {" ", "\t", "\n"}

\* str::trim: the text without its leading and trailing whitespace
RECURSIVE trim(_)
trim(t) ==
    IF t = <<>> THEN t
    ELSE IF t[1] \in Whitespace THEN trim(Tail(t))
    ELSE IF t[Len(t)] \in Whitespace THEN trim(SubSeq(t, 1, Len(t) - 1))
    ELSE t

\* the length of the longest prefix of s made of key characters: what the
\* greedy group ([[:alnum:]-]+) captures when the regex matches
RECURSIVE KeyLen(_)
KeyLen(s) ==
    IF s /= <<>> /\ s[1] \in KeyChars THEN 1 + KeyLen(Tail(s)) ELSE 0

\* the regex ^([[:alnum:]-]+)[:=](.*)$ matches s: a key, a separator, and
\* a rest without a newline ('.' does not match one)
RE_matches(s) ==
    LET n == KeyLen(s) IN
        /\ n > 0
        /\ n < Len(s)
        /\ s[n + 1] \in {":", "="}
        /\ \A k \in (n + 2)..Len(s) : s[k] /= "\n"

from_str_NoTrim(s) ==
    IF RE_matches(s)
    THEN [ok |-> TRUE,
          trailer |-> Trailer_new(SubSeq(s, 1, KeyLen(s)),
                                  SubSeq(s, KeyLen(s) + 2, Len(s)))]
    ELSE [ok |-> FALSE, trailer |-> Trailer_new(<<>>, <<>>)]

\* FromStr for Trailer
from_str(s) ==
    IF RE_matches(s)
    THEN [ok |-> TRUE,
          trailer |-> Trailer_new(SubSeq(s, 1, KeyLen(s)),
                                  trim(SubSeq(s, KeyLen(s) + 2, Len(s))))]
    ELSE [ok |-> FALSE, trailer |-> Trailer_new(<<>>, <<>>)]

\* ----------------------------------------------------------- matchers
\* ValueMatcher::Any, ::Equals and ::Contains
AnyValue == [kind |-> "Any", value |-> from_slice(<<>>), text |-> <<>>]
Equals(v) == [kind |-> "Equals", value |-> v, text |-> <<>>]
Contains(t) == [kind |-> "Contains", value |-> from_slice(<<>>), text |-> t]

\* ValueMatcher::matches
matches(matcher, value) ==
    CASE matcher.kind = "Any" -> TRUE
      [] matcher.kind = "Equals" -> value = matcher.value
      [] matcher.kind = "Contains" -> contains(to_string(value), matcher.text)

\* a matcher that demands every value to match
matches_any_Every(matcher, values) ==
    \A k \in DOMAIN values : matches(matcher, values[k])

\* ValueMatcher::matches_any
matches_any(matcher, values) ==
    \E k \in DOMAIN values : matches(matcher, values[k])

\* ------------------------------------------------------ metadata filter
ISSUE_TYPE_SPEC == [key |-> "Dit-type", accumulation |-> "Latest"]
ISSUE_STATUS_SPEC == [key |-> "Dit-status", accumulation |-> "Latest"]

FilterSpec(key, matcher, negated) ==
    [key |-> key, matcher |-> matcher, negated |-> negated]

\* FilterSpec::into_trailer
into_trailer(s, spec) == [trailer |-> spec, matcher |-> s.matcher, negated |-> s.negated]

IsNonTrailer(s) == s.key \in {"reporter-name", "reporter-email"}
IsTrailer(s) == s.key \in {"status", "type"}

\* MetadataFilter::new for specifications with known keys
MetadataFilter_new(prios, spec) ==
    LET trailer(s) ==
            into_trailer(s, IF s.key = "status" THEN ISSUE_STATUS_SPEC
                            ELSE ISSUE_TYPE_SPEC)
        selected == SelectSeq(spec, IsTrailer)
    IN  [prios |-> prios,
         nontrailers |-> SelectSeq(spec, IsNonTrailer),
         trailers |-> [k \in DOMAIN selected |-> trailer(selected[k])]]

\* NonTrailer::for_issue: name or e-mail of the author of the initial message
for_issue(key, i) ==
    IF key = "reporter-name" THEN from_slice(content[i].author.name)
    ELSE from_slice(content[i].author.email)

\* ToMap::into_map: one accumulator for each specified key
into_map(specs) ==
    [k \in {specs[j].key : j \in DOMAIN specs} |->
        from_policy((CHOOSE spec \in Range(specs) : spec.key = k).accumulation)]

\* Accumulator::process for a map: trailers with other keys are dropped
process_trailer(map, trailer) ==
    IF trailer.key \in DOMAIN map
    THEN [map EXCEPT ![trailer.key] = process(@, trailer.value)]
    ELSE map

RECURSIVE process_all(_, _)
process_all(map, trailers) ==
    IF trailers = <<>> THEN map
    ELSE process_all(process_trailer(map, Head(trailers)), Tail(trailers))

\* the trailers of the messages of a walk, in the order of the walk
RECURSIVE trailers_of(_)
trailers_of(walked) ==
    IF walked = <<>> THEN <<>>
    ELSE content[Head(walked)].trailers \o trailers_of(Tail(walked))

\* MessagesExt::accumulate_trailers
accumulate_trailers(walked, specs) ==
    process_all(into_map(specs), trailers_of(walked))

\* TrailerFilter::matches
TrailerFilter_matches(f, acc) ==
    LET values == IF f.trailer.key \in DOMAIN acc THEN acc[f.trailer.key]
                  ELSE ValueAccumulator_default
    IN  matches_any(f.matcher, into_iter(values))

TrailerFilter_spec(f) == f.trailer

\* MetadataFilter::filter for the head selected and the messages the walk
\* from it yielded (none without a head)
filter(f, i, walked) ==
    IF \E k \in DOMAIN f.nontrailers :
          LET metadata == f.nontrailers[k]
          IN  (~matches(metadata.matcher, for_issue(metadata.key, i)))
                  /= metadata.negated
    THEN FALSE
    ELSE IF f.trailers = <<>> THEN TRUE
    ELSE LET specs == [k \in DOMAIN f.trailers |-> TrailerFilter_spec(f.trailers[k])]
             acc == accumulate_trailers(walked, specs)
         IN  \A k \in DOMAIN f.trailers :
                 TrailerFilter_matches(f.trailers[k], acc) /= f.trailers[k].negated

NotFiltered == [done |-> FALSE]

\* ------------------------------------------------------ reference collector
\* RefsReferringTo returning every watched reference
RefsReferringTo_AllWatched(walk, watched) == watched

\* RefsReferringTo: the watched references whose target the wrapped
\* revwalk emits
RefsReferringTo(walk, watched) == {n \in watched : refs[n] \in Emitted(walk)}

\* push_ref_parents pushing the referred commit itself
push_ref_itself(name) == {refs[name]}

\* push_ref_parents pushing nothing
push_ref_nothing(name) == {}

\* CollectableRefs::push_ref_parents: the parents of the referred commit
push_ref_parents(name) == Range(parents[refs[name]])

\* head_history fed with every remote reference of the issue
head_history_AnyRemoteRef(i, collect_heads) ==
    Revwalk(IF collect_heads = "BackedByRemoteHead"
            THEN Targets(remote_refs(i, "Any"))
            ELSE {},
            {}, FALSE)

\* the separate per-issue walk assessing the local head
head_history(i, collect_heads) ==
    Revwalk(IF collect_heads = "BackedByRemoteHead"
            THEN Targets(remote_refs(i, "Head"))
            ELSE {},
            {}, FALSE)

\* collectable_head disregarding the collection spec
collectable_head_AnySpec(i, collect_heads) ==
    IF has_local_head(i)
    THEN RefsReferringTo(head_history(i, "BackedByRemoteHead"), {HeadName(i)})
    ELSE {}

\* collectable_head reporting every local head
collectable_head_Always(i, collect_heads) ==
    IF has_local_head(i) THEN {HeadName(i)} ELSE {}

collectable_head(i, collect_heads) ==
    IF has_local_head(i)
    THEN RefsReferringTo(head_history(i, collect_heads), {HeadName(i)})
    ELSE {}

\* pushed_for_issue without the local head
pushed_for_issue_NoHead(i, consider_remote_refs) ==
    UNION {push_ref_parents(l) : l \in local_refs(i, "Leaf")}
    \cup (IF consider_remote_refs THEN Targets(remote_refs(i, "Any")) ELSE {})

\* what is pushed onto the walk shared by all issues
pushed_for_issue(i, consider_remote_refs) ==
    (IF has_local_head(i) THEN {refs[HeadName(i)]} ELSE {})
    \cup UNION {push_ref_parents(l) : l \in local_refs(i, "Leaf")}
    \cup (IF consider_remote_refs THEN Targets(remote_refs(i, "Any")) ELSE {})

\* into_refs reporting every local leaf
into_refs_EveryLeaf(issues, consider_remote_refs, collect_heads) ==
    UNION {collectable_head(i, collect_heads) : i \in issues}
    \cup UNION {local_refs(i, "Leaf") : i \in issues}

into_refs(issues, consider_remote_refs, collect_heads) ==
    LET messages_walk ==
            Revwalk(UNION {pushed_for_issue(i, consider_remote_refs) : i \in issues},
                    {}, FALSE)
        refs_to_assess == UNION {local_refs(i, "Leaf") : i \in issues}
    IN  UNION {collectable_head(i, collect_heads) : i \in issues}
        \cup RefsReferringTo(messages_walk, refs_to_assess)

CollectionSpecs == {"Never", "BackedByRemoteHead"}

\* ------------------------------------------------------------- ref store
\* Repository::reference(name, id, force): fails if the name exists and
\* force is not set
reference_ok(name, force) == force \/ name \notin DOMAIN refs

SetRef(name, id) ==
    [n \in DOMAIN refs \cup {name} |-> IF n = name THEN id ELSE refs[n]]

DeleteRefs(names) == [n \in DOMAIN refs \ names |-> refs[n]]

\* parent lists a caller may pass: up to n distinct existing commits
RECURSIVE CommitLists(_)
CommitLists(n) ==
    IF n = 0 THEN {<<>>}
    ELSE LET shorter == CommitLists(n - 1)
         IN  shorter \cup UNION {{Append(ps, c) : c \in Commits \ Range(ps)} :
                                   ps \in {s \in shorter : Len(s) = n - 1}}

ParentLists == CommitLists(MaxParents)

NoOp ==
    [op |-> "none", issue |-> NoOid, msg |-> NoOid, ok |-> TRUE,
     issues |-> {}, remote |-> FALSE, heads |-> "Never", ret |-> {},
     replace |-> FALSE]

Op(name, i, m, ok) ==
    [NoOp EXCEPT !.op = name, !.issue = i, !.msg = m, !.ok = ok]

\* ---------------------------------------------------------------- actions
RepositoryInit ==
    /\ parents = <<>>
    /\ refs = <<>>
    /\ last = NoOp
    /\ nops = 0

CodecInit ==
    /\ refname = <<>>
    /\ classified = [done |-> FALSE, result |-> None]

AccumulationInit ==
    /\ accumulator = ValueAccumulator_default
    /\ processed = <<>>

SelectingInit ==
    /\ candidates = <<>>
    /\ priorization = <<"*">>
    /\ selection = [done |-> FALSE, ref |-> NoRef]

FilteringInit ==
    /\ content = <<>>
    /\ filtered = NotFiltered

\* str::trim_right: the text without its trailing whitespace
RECURSIVE trim_right(_)
trim_right(t) ==
    IF t /= <<>> /\ t[Len(t)] \in Whitespace
    THEN trim_right(SubSeq(t, 1, Len(t) - 1))
    ELSE t

\* TrailerValue::append: the result is always a string value
append(v, slice) == [int |-> FALSE, i |-> 0, s |-> to_string(v) \o slice]

\* Block::Text and Block::Trailer; NoBlock is the None of Blocks::next
TextBlock(ls) == [kind |-> "Text", lines |-> ls, trailers |-> <<>>]
TrailerBlock(ts) == [kind |-> "Trailer", lines |-> <<>>, trailers |-> ts]
NoBlock == [kind |-> "None", lines |-> <<>>, trailers |-> <<>>]

\* the loop of Blocks::next over the lines left in the wrapped iterator:
\* ls and ts are the lines and trailers of the block gathered so far
RECURSIVE scan(_, _, _, _)
scan(rest, ls, ts, is_trailer) ==
    IF rest = <<>>
    THEN [lines |-> ls, trailers |-> ts, is_trailer |-> is_trailer, rest |-> rest]
    ELSE LET trimmed == trim_right(Head(rest)) IN
        IF trimmed = <<>>
        THEN IF ls = <<>>
             THEN scan(Tail(rest), ls, ts, is_trailer)
             ELSE [lines |-> ls, trailers |-> ts, is_trailer |-> is_trailer,
                   rest |-> Tail(rest)]
        ELSE IF ~is_trailer
        THEN scan(Tail(rest), Append(ls, trimmed), ts, FALSE)
        ELSE IF trimmed[1] = " "
        THEN IF ts /= <<>>
             THEN scan(Tail(rest), Append(ls, trimmed),
                       [ts EXCEPT ![Len(ts)].value = append(@, trimmed)], TRUE)
             ELSE scan(Tail(rest), Append(ls, trimmed), ts, FALSE)
        ELSE IF from_str(trimmed).ok
        THEN scan(Tail(rest), Append(ls, trimmed),
                  Append(ts, from_str(trimmed).trailer), TRUE)
        ELSE scan(Tail(rest), Append(ls, trimmed), ts, FALSE)

\* Blocks::next: the next block and the lines left after it
Blocks_next(rest) ==
    LET r == scan(rest, <<>>, <<>>, TRUE) IN
        [rest |-> r.rest,
         block |-> IF r.lines = <<>> THEN NoBlock
                   ELSE IF r.is_trailer THEN TrailerBlock(r.trailers)
                   ELSE TextBlock(r.lines)]

NotFormatted == [done |-> FALSE, text |-> <<>>]

NotParsed == [done |-> FALSE, ok |-> FALSE, trailer |-> Trailer_new(<<>>, <<>>)]

\* RefsReferringTo::new over an empty revwalk
ReferringInit ==
    /\ revwalk = Revwalk({}, {}, FALSE)
    /\ commits_left = <<>>
    /\ watch_log = <<>>
    /\ watch_map = <<>>
    /\ current_refs = <<>>
    /\ reported = <<>>

DeletingInit ==
    /\ wrapped = <<>>
    /\ inner = <<>>
    /\ attempts = <<>>
    /\ yielded = <<>>

SplittingInit ==
    /\ document = <<>>
    /\ unread = <<>>
    /\ blocks = <<>>

ParsingInit ==
    /\ given = Trailer_new(<<>>, <<>>)
    /\ formatted = NotFormatted
    /\ parsed = NotParsed

Init ==
    /\ RepositoryInit
    /\ CodecInit
    /\ AccumulationInit
    /\ SelectingInit
    /\ FilteringInit
    /\ ParsingInit
    /\ SplittingInit
    /\ DeletingInit
    /\ ReferringInit

\* an issue creation that also pins the initial message with a leaf
CreateIssue_WithLeaf(ps) ==
    /\ LET id == Len(parents) + 1
       IN  /\ parents' = Append(parents, ps)
           /\ refs' = [n \in DOMAIN refs \cup {HeadName(id), LeafName(id, id)} |->
                         IF n \in {HeadName(id), LeafName(id, id)} THEN id
                         ELSE refs[n]]
           /\ last' = Op("create_issue", id, id, TRUE)
    /\ nops' = nops + 1
    /\ UNCHANGED <<refname, classified,
                 accumulation, selecting, filtering, parsing, splitting, deleting, referring>>

\* RepositoryExt::create_issue
CreateIssue(ps) ==
    /\ LET id == Len(parents) + 1
       IN  /\ parents' = Append(parents, ps)
           /\ refs' = SetRef(HeadName(id), id)      \* update_head(id, true)
           /\ last' = Op("create_issue", id, id, TRUE)
    /\ nops' = nops + 1
    /\ UNCHANGED <<refname, classified,
                 accumulation, selecting, filtering, parsing, splitting, deleting, referring>>

\* Issue::add_message
AddMessage(i, ps) ==
    /\ LET id == Len(parents) + 1
           ok == reference_ok(LeafName(i, id), FALSE)
       IN  /\ parents' = Append(parents, ps)
           /\ refs' = IF ok THEN SetRef(LeafName(i, id), id) ELSE refs
           /\ last' = Op("add_message", i, id, ok)
    /\ nops' = nops + 1
    /\ UNCHANGED <<refname, classified,
                 accumulation, selecting, filtering, parsing, splitting, deleting, referring>>

\* Issue::add_leaf
AddLeaf(i, m) ==
    /\ LET ok == reference_ok(LeafName(i, m), FALSE)
       IN  /\ refs' = IF ok THEN SetRef(LeafName(i, m), m) ELSE refs
           /\ last' = Op("add_leaf", i, m, ok)
    /\ nops' = nops + 1
    /\ UNCHANGED <<parents, refname, classified,
                 accumulation, selecting, filtering, parsing, splitting,
                 deleting, referring>>

\* Issue::update_head
\* an update that is refused unless it is a fast-forward
UpdateHead_FastForward(i, m, replace) ==
    /\ LET ok == \/ reference_ok(HeadName(i), replace)
                 \/ refs[HeadName(i)] \in Reach({m})
       IN  /\ refs' = IF ok THEN SetRef(HeadName(i), m) ELSE refs
           /\ last' = [Op("update_head", i, m, ok) EXCEPT !.replace = replace]
    /\ nops' = nops + 1
    /\ UNCHANGED <<parents, refname, classified,
                 accumulation, selecting, filtering, parsing, splitting,
                 deleting, referring>>

UpdateHead(i, m, replace) ==
    /\ LET ok == reference_ok(HeadName(i), replace)
       IN  /\ refs' = IF ok THEN SetRef(HeadName(i), m) ELSE refs
           /\ last' = [Op("update_head", i, m, ok) EXCEPT !.replace = replace]
    /\ nops' = nops + 1
    /\ UNCHANGED <<parents, refname, classified,
                 accumulation, selecting, filtering, parsing, splitting,
                 deleting, referring>>

\* tag_impl: a new commit on top of the selected head, then the local head
\* is moved onto it; no leaf is created
\* a tag commit that does not hang on the selected head
Tag_Detached(i, selected, references) ==
    /\ selected \in (IF has_local_head(i) THEN {HeadName(i)} ELSE heads(i))
    /\ refs[selected] \notin Range(references)
    /\ LET id == Len(parents) + 1
       IN  /\ parents' = Append(parents, references)
           /\ refs' = SetRef(HeadName(i), id)
           /\ last' = Op("tag", i, id, TRUE)
    /\ nops' = nops + 1
    /\ UNCHANGED <<refname, classified,
                 accumulation, selecting, filtering, parsing, splitting, deleting, referring>>

Tag(i, selected, references) ==
    /\ selected \in (IF has_local_head(i) THEN {HeadName(i)} ELSE heads(i))
    /\ refs[selected] \notin Range(references)
    /\ LET id == Len(parents) + 1
       IN  /\ parents' = Append(parents, <<refs[selected]>> \o references)
           /\ refs' = SetRef(HeadName(i), id)       \* update_head(new, true)
           /\ last' = Op("tag", i, id, TRUE)
    /\ nops' = nops + 1
    /\ UNCHANGED <<refname, classified,
                 accumulation, selecting, filtering, parsing, splitting, deleting, referring>>

\* fetch_impl: the refspec mirrors a ref of the remote repository below
\* refs/remotes/<remote>/, forcing the update
Fetch(r, i, type, m) ==
    /\ LET name == RemoteName(r, IF type = "Head" THEN HeadName(i)
                                                  ELSE LeafName(i, m))
       IN  /\ refs' = SetRef(name, m)
           /\ last' = Op("fetch", i, m, TRUE)
    /\ nops' = nops + 1
    /\ UNCHANGED <<parents, refname, classified,
                 accumulation, selecting, filtering, parsing, splitting,
                 deleting, referring>>

\* a collection that deletes the reported leaves and keeps the heads
Gc_LeavesOnly(issues, consider_remote_refs, collect_heads) ==
    /\ LET ret == into_refs(issues, consider_remote_refs, collect_heads)
       IN  /\ refs' = DeleteRefs({n \in ret : of_ref(n).type = "Leaf"})
           /\ last' = [NoOp EXCEPT !.op = "gc", !.issues = issues,
                                   !.remote = consider_remote_refs,
                                   !.heads = collect_heads, !.ret = ret]
    /\ nops' = nops + 1
    /\ UNCHANGED <<parents, refname, classified,
                 accumulation, selecting, filtering, parsing, splitting,
                 deleting, referring>>

\* gc_impl: compute the collectable references and delete them all
Gc(issues, consider_remote_refs, collect_heads) ==
    /\ LET ret == into_refs(issues, consider_remote_refs, collect_heads)
       IN  /\ refs' = DeleteRefs(ret)
           /\ last' = [NoOp EXCEPT !.op = "gc", !.issues = issues,
                                   !.remote = consider_remote_refs,
                                   !.heads = collect_heads, !.ret = ret]
    /\ nops' = nops + 1
    /\ UNCHANGED <<parents, refname, classified,
                 accumulation, selecting, filtering, parsing, splitting,
                 deleting, referring>>

\* mirror_impl run for one issue with --clone-head or --update-head: the
\* selected head's target is written to the local head, replacing an
\* existing one only with --update-head
MirrorHead(i, prios, selected, update_head) ==
    /\ selected \in selectable(heads(i), prios)
    /\ selected /= NoRef
    /\ LET id == refs[selected]
           ok == reference_ok(HeadName(i), update_head)
       IN  /\ refs' = IF ok THEN SetRef(HeadName(i), id) ELSE refs
           /\ last' = [Op("mirror_head", i, id, ok) EXCEPT !.replace = update_head]
    /\ nops' = nops + 1
    /\ UNCHANGED <<parents, refname, classified,
                 accumulation, selecting, filtering, parsing, splitting,
                 deleting, referring>>

\* the remote leaves mirror_impl considers: those of the remote given, or
\* of all remotes if none is given
mirror_leaves(i, r) ==
    Targets({n \in remote_refs(i, "Leaf") : r = NoRemote \/ remote(n) = r})

\* the messages which already hang by local references, and the parents
\* of the supposed leaves
existing_refs(i, leaves) ==
    terminated_messages(i, Targets(local_refs(i, "Any"))
                           \cup UNION {Range(parents[l]) : l \in leaves})

\* mirror_impl run for one issue with --clone-leaves: a local leaf is added
\* for every remote leaf not covered yet; the run aborts at the first leaf
\* that cannot be added, after adding the ones that came before it
MirrorLeaves(i, r, added) ==
    /\ LET leaves == mirror_leaves(i, r)
           required == leaves \ Emitted(existing_refs(i, leaves))
           failing == {l \in required : ~reference_ok(LeafName(i, l), FALSE)}
       IN  /\ added \subseteq required \ failing
           /\ failing = {} => added = required
           /\ refs' = [n \in DOMAIN refs \cup {LeafName(i, l) : l \in added} |->
                         IF n \in DOMAIN refs THEN refs[n]
                         ELSE CHOOSE l \in added : n = LeafName(i, l)]
           /\ last' = Op("mirror_leaves", i, NoOid, failing = {})
    /\ nops' = nops + 1
    /\ UNCHANGED <<parents, refname, classified,
                 accumulation, selecting, filtering, parsing, splitting,
                 deleting, referring>>

\* the exploration is cut off after MaxOps operations and MaxCommits commits
MayAct == nops < MaxOps
MayCommit == MayAct /\ Len(parents) < MaxCommits

Next ==
    \/ MayCommit /\ \E ps \in ParentLists : CreateIssue(ps)
    \/ MayCommit /\ \E i \in Issues, ps \in ParentLists : AddMessage(i, ps)
    \/ MayAct /\ \E i \in Issues, m \in Commits : AddLeaf(i, m)
    \/ MayAct /\ \E i \in Issues, m \in Commits, replace \in BOOLEAN :
          UpdateHead(i, m, replace)
    \/ MayCommit /\ \E i \in Issues, selected \in DOMAIN refs,
                       references \in CommitLists(MaxParents - 1) :
          Tag(i, selected, references)
    \/ MayAct /\ \E r \in Remotes, i \in Issues, type \in {"Head", "Leaf"},
                    m \in Commits :
          Fetch(r, i, type, m)
    \/ MayAct /\ \E issues \in SUBSET Issues, cr \in BOOLEAN, ch \in CollectionSpecs :
          issues /= {} /\ Gc(issues, cr, ch)
    \/ MayAct /\ \E i \in Issues, prios \in ConfiguredPrios \cup {<<r>> : r \in Remotes},
                    selected \in DOMAIN refs, update_head \in BOOLEAN :
          MirrorHead(i, prios, selected, update_head)
    \/ MayAct /\ \E i \in Issues, r \in Remotes \cup {NoRemote},
                    added \in SUBSET Commits :
          MirrorLeaves(i, r, added)

Spec == Init /\ [][Next]_vars

\* ------------------------------------------- classification of ref names
\* The segments names are built from: the words of the layout, full ids in
\* lower and in upper case, an abbreviated id and a non-hex string of the
\* length of an id.
Segments ==
    {"dit", "head", "leaves", OidStr(1), OidStr(2), OidStrUpper(2), ShortHex,
     NonHex40}

NamedIds == {1, 2}

AppendSegment(s) ==
    /\ ~classified.done
    /\ Len(refname) < MaxSegments
    /\ refname' = Append(refname, s)
    /\ UNCHANGED <<parents, refs, last, nops, classified,
                 accumulation, selecting, filtering, parsing, splitting, deleting, referring>>

\* the name Issue::update_head writes
WriteHeadName(i) ==
    /\ ~classified.done
    /\ refname = <<>>
    /\ refname' = HeadName(i)
    /\ UNCHANGED <<parents, refs, last, nops, classified,
                 accumulation, selecting, filtering, parsing, splitting, deleting, referring>>

\* the name Issue::add_leaf writes
WriteLeafName(i, m) ==
    /\ ~classified.done
    /\ refname = <<>>
    /\ refname' = LeafName(i, m)
    /\ UNCHANGED <<parents, refs, last, nops, classified,
                 accumulation, selecting, filtering, parsing, splitting, deleting, referring>>

Classify ==
    /\ ~classified.done
    /\ classified' = [done |-> TRUE, result |-> of_ref(refname)]
    /\ UNCHANGED <<parents, refs, last, nops, refname,
                 accumulation, selecting, filtering, parsing, splitting, deleting, referring>>

NextOfRef ==
    \/ \E s \in Segments : AppendSegment(s)
    \/ \E i \in NamedIds : WriteHeadName(i)
    \/ \E i \in NamedIds, m \in NamedIds : WriteLeafName(i, m)
    \/ Classify

SpecOfRef == Init /\ [][NextOfRef]_vars

\* ================================================================ claims
IsFirstParent(c, p) == parents[c] /= <<>> /\ parents[c][1] = p

\* the references whose name lies below refs/dit/<i>/
Below(i) ==
    {n \in DOMAIN refs : Len(n) > 3 /\ SubSeq(n, 1, 3) = <<"refs", "dit", OidStr(i)>>}

\* the repository holds exactly the given references
RefsAre(expected) ==
    /\ DOMAIN refs = {e[1] : e \in expected}
    /\ \A e \in expected : refs[e[1]] = e[2]

\* C1: in a fresh repository, after create_issue produced issue I and
\* add_message added a reply R whose first parent is I, exactly two
\* references lie below refs/dit/<I>/ (the head targeting I and the leaf
\* leaves/<R> targeting R), and messages(I) yields exactly [R, I].
S1State ==
    /\ nops = 2
    /\ last.op = "add_message" /\ last.ok
    /\ IsFirstParent(last.msg, last.issue)

C1_CreateAndReply ==
    S1State =>
        LET I == last.issue
            R == last.msg
        IN  /\ Below(I) = {HeadName(I), LeafName(I, R)}
            /\ local_refs(I, "Any") = Below(I)
            /\ refs[HeadName(I)] = I
            /\ refs[LeafName(I, R)] = R
            /\ Yields(messages(I)) = {<<R, I>>}

C1_Witness == S1State /\ Len(parents) = 2

\* C2: no walk of an issue's messages yields a parent of the initial
\* message or an ancestor of such a parent.  With issue B's initial message
\* b having first parent a (initial message of issue A) and a reply b1 on
\* b, messages(A) yields exactly [a] and messages(B) yields exactly [b1, b].
S2State(a, b, b1) ==
    /\ IsFirstParent(b, a)
    /\ IsFirstParent(b1, b)
    /\ RefsAre({<<HeadName(a), a>>, <<HeadName(b), b>>, <<LeafName(b, b1), b1>>})

C2_BoundedWalk ==
    /\ \A i \in Issues :
          LET beyond == Reach(Range(parents[i]))
          IN  /\ Emitted(messages(i)) \cap beyond = {}
              /\ \A m \in Commits : Emitted(messages_from(i, m)) \cap beyond = {}
    /\ \A a \in Commits, b \in Commits, b1 \in Commits :
          S2State(a, b, b1) =>
              /\ Yields(messages(a)) = {<<a>>}
              /\ Yields(messages(b)) = {<<b1, b>>}
              /\ Yields(messages_from(b, b1)) = {<<b1, b>>}

C2_Witness == \E a \in Commits, b \in Commits, b1 \in Commits : S2State(a, b, b1)

C4_MessageHasLeaf ==
    (last.op = "add_message" /\ last.ok) =>
        /\ LeafName(last.issue, last.msg) \in local_refs(last.issue, "Leaf")
        /\ refs[LeafName(last.issue, last.msg)] = last.msg
        /\ \A n \in local_refs(last.issue, "Leaf") :
              of_ref(n) = Some(last.issue, "Leaf")

C4_Witness ==
    /\ last.op = "add_message" /\ last.ok
    /\ \E j \in Issues : j /= last.issue /\ local_refs(j, "Leaf") /= {}

\* --------------------------------------------------- collector claims
\* the references of issue i of a kind, told apart by name alone
IsLocal(n) == Len(n) >= 2 /\ n[1] = "refs" /\ n[2] = "dit"
IsRemote(n) == Len(n) >= 3 /\ n[1] = "refs" /\ n[2] = "remotes"

LocalRefsOf(i, type) ==
    {n \in DOMAIN refs : IsLocal(n) /\ of_ref(n) = Some(i, type)}

RemoteRefsOf(i, type) ==
    {n \in DOMAIN refs : IsRemote(n) /\ of_ref(n) = Some(i, type)}

AllOf(issues, F(_)) == UNION {F(i) : i \in issues}

LocalHeads(issues) == AllOf(issues, LAMBDA i : LocalRefsOf(i, "Head"))
LocalLeaves(issues) == AllOf(issues, LAMBDA i : LocalRefsOf(i, "Leaf"))
RemoteHeads(issues) == AllOf(issues, LAMBDA i : RemoteRefsOf(i, "Head"))
RemoteLeaves(issues) == AllOf(issues, LAMBDA i : RemoteRefsOf(i, "Leaf"))

\* c is an ancestor of d, or d itself
AncestorOrEqual(c, d) == c \in Reach({d})
StrictAncestor(c, d) == c \in Reach(Range(parents[d]))

Collections == (SUBSET Issues) \ {{}}

\* the remote references taken into account when consider_remote_refs is set
RemoteRefs(issues) == RemoteHeads(issues) \cup RemoteLeaves(issues)

\* C5 as stated: a local leaf L is reported iff its target is an ancestor
\* of, or equal to, the target of some other considered reference.
C5_Original ==
    \A issues \in Collections :
        LET leaves == LocalLeaves(issues)
            local == LocalHeads(issues) \cup leaves
            distant == RemoteRefs(issues)
        IN  \A cr \in BOOLEAN, ch \in CollectionSpecs :
                LET ret == into_refs(issues, cr, ch)
                    considered == local \cup (IF cr THEN distant ELSE {})
                IN  \A L \in leaves :
                        L \in ret
                        <=> \E n \in considered \ {L} :
                                AncestorOrEqual(refs[L], refs[n])

\* C5 (amended): a local leaf L is reported iff its target is an ancestor
\* of, or equal to, the target of a local head or (only when
\* consider_remote_refs is set) of a remote head or remote leaf, or a strict
\* ancestor of the target of another local leaf.
C5_LeafRedundancy ==
    \A issues \in Collections :
        LET leaves == LocalLeaves(issues)
            heads_ == LocalHeads(issues)
            distant == RemoteRefs(issues)
        IN  \A cr \in BOOLEAN, ch \in CollectionSpecs :
                LET ret == into_refs(issues, cr, ch)
                    others == heads_ \cup (IF cr THEN distant ELSE {})
                IN  \A L \in leaves :
                        L \in ret
                        <=> \/ \E n \in others :
                                   AncestorOrEqual(refs[L], refs[n])
                            \/ \E n \in leaves \ {L} :
                                   StrictAncestor(refs[L], refs[n])

C5_Witness ==
    \E L1 \in LocalLeaves(Issues), L2 \in LocalLeaves(Issues) :
        /\ L1 /= L2
        /\ StrictAncestor(refs[L1], refs[L2])
        /\ L1 \in into_refs(Issues, FALSE, "Never")
        /\ L2 \notin into_refs(Issues, FALSE, "Never")

DefaultGcDone ==
    last.op = "gc" /\ ~last.remote /\ last.heads = "Never"

\* C6: after a collection with the default policies over issue i and the
\* deletion of everything it reported, no local leaf of i is left whose
\* target is a strict ancestor of the target of another local reference
\* (head or leaf) of i that is left.
C6_NoCoveredLeafLeft ==
    DefaultGcDone =>
        \A i \in last.issues :
            \A L \in LocalRefsOf(i, "Leaf") :
                \A n \in (LocalRefsOf(i, "Head") \cup LocalRefsOf(i, "Leaf")) \ {L} :
                    ~StrictAncestor(refs[L], refs[n])

C6_Witness ==
    /\ DefaultGcDone
    /\ last.ret /= {}
    /\ \E i \in last.issues : LocalRefsOf(i, "Leaf") /= {}

IsGcStep == nops' = nops + 1 /\ last'.op = "gc"

\* C7: with collect_heads = Never, for either value of
\* consider_remote_refs, what into_refs returns contains no head reference,
\* and the collection leaves every local head in place with its target.
C7_HeadsKept ==
    [][(IsGcStep /\ last'.heads = "Never") =>
          /\ \A n \in last'.ret : of_ref(n).type /= "Head"
          /\ \A i \in Commits :
                HeadName(i) \in DOMAIN refs =>
                    /\ HeadName(i) \in DOMAIN refs'
                    /\ refs'[HeadName(i)] = refs[HeadName(i)]]_vars

C7_Witness ==
    /\ last.op = "gc" /\ last.heads = "Never" /\ last.remote
    /\ last.ret /= {}
    /\ \E i \in last.issues :
          /\ has_local_head(i)
          /\ \E n \in RemoteRefsOf(i, "Head") :
                AncestorOrEqual(refs[HeadName(i)], refs[n])

\* the layout of S6: replies r1 and r2 on issue i, r2 replying to r1, both
\* with their leaf, and the head moved onto r2
S6State(i, r1, r2) ==
    /\ IsFirstParent(r1, i)
    /\ IsFirstParent(r2, r1)
    /\ RefsAre({<<HeadName(i), r2>>, <<LeafName(i, r1), r1>>,
                <<LeafName(i, r2), r2>>})

\* C8 as stated: in the layout of S6 the default collection reports the
\* leaf of r1 and reports neither the leaf of r2 nor the head.
C8_Original ==
    \A i \in Commits, r1 \in Commits, r2 \in Commits :
        S6State(i, r1, r2) =>
            LET ret == into_refs({i}, FALSE, "Never")
            IN  /\ LeafName(i, r1) \in ret
                /\ LeafName(i, r2) \notin ret
                /\ HeadName(i) \notin ret

\* C8 (amended): in the layout of S6 the default collection reports the
\* leaf of r1 and the leaf of r2 (the head targets r2 and so covers it), and
\* does not report the head.
C8_HeadCoversLeaves ==
    \A i \in Commits, r1 \in Commits, r2 \in Commits :
        S6State(i, r1, r2) =>
            into_refs({i}, FALSE, "Never") = {LeafName(i, r1), LeafName(i, r2)}

C8_Witness ==
    \E i \in Commits, r1 \in Commits, r2 \in Commits : S6State(i, r1, r2)

\* C9: a local head is reported iff collect_heads = BackedByRemoteHead and
\* its target is an ancestor of, or equal to, the target of a remote head
\* of the same issue; local leaves and remote leaves never cause it.
C9_HeadRedundancy ==
    LET backed == {i \in Issues :
                     /\ HeadName(i) \in DOMAIN refs
                     /\ \E n \in RemoteRefsOf(i, "Head") :
                           AncestorOrEqual(refs[HeadName(i)], refs[n])}
    IN  \A issues \in Collections, cr \in BOOLEAN, ch \in CollectionSpecs :
            LET ret == into_refs(issues, cr, ch)
            IN  \A i \in issues :
                    HeadName(i) \in DOMAIN refs =>
                        (HeadName(i) \in ret
                         <=> ch = "BackedByRemoteHead" /\ i \in backed)

C9_Witness ==
    \E i \in Issues :
        /\ HeadName(i) \in into_refs({i}, TRUE, "BackedByRemoteHead")
        /\ HeadName(i) \notin into_refs({i}, TRUE, "Never")
        /\ \E n \in RemoteRefsOf(i, "Leaf") :
              AncestorOrEqual(refs[HeadName(i)], refs[n])

\* a segment is a full id: 40 hexadecimal digits
Is40Hex(s) == \E c \in OidSpace : s = LowerHex[c] \/ s = UpperHex[c]
IdOf(s) == CHOOSE c \in OidSpace : s = LowerHex[c] \/ s = UpperHex[c]

HasDit(n, upto) == \E j \in 1..upto : n[j] = "dit"

\* the classification of a name, read front to back
Classification(n) ==
    LET k == Len(n)
    IN  IF k >= 3 /\ n[k] = "head" /\ Is40Hex(n[k - 1]) /\ HasDit(n, k - 2)
        THEN Some(IdOf(n[k - 1]), "Head")
        ELSE IF k >= 4 /\ Is40Hex(n[k]) /\ n[k - 1] = "leaves"
                  /\ Is40Hex(n[k - 2]) /\ HasDit(n, k - 3)
        THEN Some(IdOf(n[k - 2]), "Leaf")
        ELSE None

\* C10: of_ref(n) is (id, Head) exactly when the last segment of n is
\* "head", the one before it a 40-hex id and an earlier one "dit"; it is
\* (id, Leaf) exactly when the last segment is a 40-hex id preceded by
\* "leaves", preceded by a 40-hex issue id, with an earlier "dit"; it is
\* None for every other name.  The name written for the head of issue i
\* classifies to (i, Head), the one written for leaf m of i to (i, Leaf).
C10_OfRefClassifies ==
    classified.done =>
        /\ classified.result = Classification(refname)
        /\ \A i \in NamedIds :
              /\ refname = HeadName(i) => classified.result = Some(i, "Head")
              /\ \A m \in NamedIds :
                    refname = LeafName(i, m) => classified.result = Some(i, "Leaf")

C10_Witness ==
    /\ classified.done
    /\ refname = LeafName(2, 1)
    /\ classified.result = Some(2, "Leaf")

\* ------------------------------------------------------ codec round trip
\* the names the writers of the codec (update_head, add_leaf) produce for
\* an issue id and a kind
rebuild(c) ==
    IF c.type = "Head" THEN {HeadName(c.id)}
    ELSE IF c.type = "Leaf" THEN {LeafName(c.id, m) : m \in Commits}
    ELSE {}

\* C11 as stated: classifying a produced name and rebuilding a name from
\* the resulting (issue id, kind) yields the same name.
C11_Original == \A n \in DOMAIN refs : rebuild(of_ref(n)) = {n}

\* C11 (amended): every produced name classifies to the issue id and kind
\* it was written for; a local head name is rebuilt from (id, Head) alone,
\* a leaf name only together with the message id (the target of the leaf),
\* and a remote copy only together with the name of its remote.
C11_RoundTrip ==
    \A n \in DOMAIN refs :
        LET c == of_ref(n)
        IN  /\ c.some
            /\ c.type = "Head" /\ ~is_remote(n) => rebuild(c) = {n}
            /\ c.type = "Leaf" /\ ~is_remote(n) => n = LeafName(c.id, refs[n])
            /\ is_remote(n) =>
                  n \in {RemoteName(remote(n), x) : x \in rebuild(c)}

C11_Witness ==
    /\ \E n \in DOMAIN refs : is_remote(n) /\ of_ref(n).type = "Leaf"
    /\ \E n \in DOMAIN refs : is_remote(n) /\ of_ref(n).type = "Head"
    /\ \E n \in DOMAIN refs : ~is_remote(n) /\ of_ref(n).type = "Leaf"

\* ------------------------------------------------------------ update_head
\* a step in which Issue::update_head was called (by update_head itself or
\* by the head part of mirror)
IsUpdateHeadStep ==
    nops' = nops + 1 /\ last'.op \in {"update_head", "mirror_head"}

HeadSet(i, m) ==
    /\ last'.ok
    /\ refs' = SetRef(HeadName(i), m)

HeadRefused ==
    /\ ~last'.ok
    /\ refs' = refs

\* C12 as stated: without the flag an existing head moves to a descendant
\* and an update to anything else is refused; with the flag the head is set.
C12_Original ==
    [][IsUpdateHeadStep =>
          LET i == last'.issue
              m == last'.msg
          IN  /\ last'.replace => HeadSet(i, m)
              /\ ~last'.replace /\ HeadName(i) \in DOMAIN refs =>
                    /\ StrictAncestor(refs[HeadName(i)], m) => HeadSet(i, m)
                    /\ ~AncestorOrEqual(refs[HeadName(i)], m) => HeadRefused]_vars

\* C12 (amended): update_head(m, false) on an existing head is refused and
\* leaves the head unchanged, whether or not m is a descendant of the head;
\* it succeeds only when the issue has no local head.  update_head(m, true)
\* always sets the head to m.
C12_UpdateHead ==
    [][IsUpdateHeadStep =>
          LET i == last'.issue
              m == last'.msg
          IN  /\ last'.replace => HeadSet(i, m)
              /\ ~last'.replace /\ HeadName(i) \in DOMAIN refs => HeadRefused
              /\ ~last'.replace /\ HeadName(i) \notin DOMAIN refs =>
                    HeadSet(i, m)]_vars

C12_Witness ==
    /\ last.op = "update_head"
    /\ ~last.replace
    /\ ~last.ok
    /\ HeadName(last.issue) \in DOMAIN refs
    /\ StrictAncestor(refs[HeadName(last.issue)], last.msg)

\* --------------------------------------------------------------- rewinds
\* a step of one of the local operations (everything but fetch)
IsLocalStep ==
    /\ nops' = nops + 1
    /\ last'.op \in {"create_issue", "add_message", "add_leaf", "update_head",
                     "tag", "mirror_head", "mirror_leaves", "gc"}

\* a reference is gone only if a collection reported it
KeptOrCollected(n) ==
    n \in DOMAIN refs' \/ (last'.op = "gc" /\ n \in last'.ret)

LeafKept(n) ==
    of_ref(n).type = "Leaf" /\ n \in DOMAIN refs' => refs'[n] = refs[n]

HeadForward(n) ==
    of_ref(n).type = "Head" /\ n \in DOMAIN refs' =>
        \E old \in Commits : old = refs[n] /\ AncestorOrEqual(old, refs[n])'

\* C13 as stated: no local operation rewinds a reference; a head only moves
\* to a descendant, a leaf never moves, and only a collection removes
\* references, namely the ones it reported.
C13_Original ==
    [][IsLocalStep =>
          \A n \in DOMAIN refs :
              KeptOrCollected(n) /\ LeafKept(n) /\ HeadForward(n)]_vars

\* C13 (amended): a leaf never moves and only a collection removes
\* references, namely the ones it reported; a head only moves to a
\* descendant, except by update_head with the replace flag set, which
\* moves the head of its issue to the given message whatever its ancestry.
C13_NoRewind ==
    [][IsLocalStep =>
          \A n \in DOMAIN refs :
              /\ KeptOrCollected(n)
              /\ LeafKept(n)
              /\ \/ HeadForward(n)
                 \/ /\ last'.op = "update_head"
                    /\ last'.replace
                    /\ n = HeadName(last'.issue)
                    /\ refs'[n] = last'.msg]_vars

C13_Witness ==
    /\ last.op = "gc"
    /\ last.ret /= {}
    /\ last.ret \cap DOMAIN refs = {}
    /\ \E i \in Commits :
          /\ HeadName(i) \in DOMAIN refs
          /\ StrictAncestor(i, refs[HeadName(i)])

\* ------------------------------------------------------- heads and leaves
\* the local head of issue i points at a leaf target of i or at a commit
\* reachable along first parents from one
HeadOnLeafChain(i) ==
    /\ HeadName(i) \in DOMAIN refs
    /\ \E n \in local_refs(i, "Leaf") :
          refs[HeadName(i)] \in FirstParentReach({refs[n]}, {})

\* C14 as stated: in every state reached by create_issue, add_message,
\* update_head, tag and GC, each local head points at a leaf target of its
\* issue or at a commit first-parent-reachable from one.
C14_Original ==
    \A i \in Commits : HeadName(i) \in DOMAIN refs => HeadOnLeafChain(i)

HeadWritten(i) ==
    /\ HeadName(i) \in DOMAIN refs'
    /\ HeadName(i) \in DOMAIN refs => refs'[HeadName(i)] /= refs[HeadName(i)]

\* C14 (amended): a local head need not be related to a leaf.  create_issue
\* leaves the head at the new initial message and tag at the new tag commit
\* (on top of a head of the issue), neither of which is a leaf target or
\* first-parent-reachable from one; update_head and mirror leave it at the
\* message given or selected; no other operation writes a head.
C14_HeadWrites ==
    [][IsLocalStep =>
          \A i \in Commits' :
              HeadWritten(i) =>
                  /\ i = last'.issue
                  /\ refs'[HeadName(i)] = last'.msg
                  /\ \/ /\ last'.op = "create_issue"
                        /\ last'.msg = i
                        /\ ~HeadOnLeafChain(i)'
                     \/ /\ last'.op = "tag"
                        /\ parents'[last'.msg][1] \in Targets(heads(i))
                        /\ ~HeadOnLeafChain(i)'
                     \/ last'.op \in {"update_head", "mirror_head"}]_vars

C14_Witness ==
    /\ last.op = "tag"
    /\ refs[HeadName(last.issue)] = last.msg
    /\ local_refs(last.issue, "Leaf") /= {}
    /\ ~HeadOnLeafChain(last.issue)

\* ---------------------------------------------------- issue_with_message
\* the first commit with a head reference on the chain of first parents
\* that starts with m, if there is one
RECURSIVE FirstWithHead(_)
FirstWithHead(m) ==
    IF heads(m) /= {} THEN m
    ELSE IF parents[m] = <<>> THEN NoOid
    ELSE FirstWithHead(parents[m][1])

\* a reply as reply_impl makes it: a message without a head of its own,
\* added to the issue that issue_with_message finds for its first parent
IsReplyTo(m, i) ==
    /\ heads(m) = {}
    /\ parents[m] /= <<>>
    /\ issue_with_message(parents[m][1]) = {FoundIssue(i)}

\* C15: issue_with_message(m) returns the issue of the first commit on m's
\* chain of first parents, m included, that has a local or remote head
\* reference, and fails with NoTreeInitFound(m) when the chain has none; so
\* for a reply to issue i it returns i, also when the initial message of i
\* has a parent that belongs to another issue.
C15_FirstIssueOnChain ==
    \A m \in Commits :
        /\ issue_with_message(m) =
              {IF FirstWithHead(m) = NoOid
               THEN Failure("NoTreeInitFound", m)
               ELSE FoundIssue(FirstWithHead(m))}
        /\ \A i \in Issues :
              IsReplyTo(m, i) => issue_with_message(m) = {FoundIssue(i)}

C15_Witness ==
    /\ last.op = "add_message" /\ last.ok
    /\ IsReplyTo(last.msg, last.issue)
    /\ parents[last.msg][1] = last.issue
    /\ parents[last.issue] /= <<>>
    /\ find_issue(parents[last.issue][1])

\* ----------------------------------------------------- issue_by_head_ref
\* RepositoryExt::issue_by_head_ref: a name ending in "/head" whose
\* segment before "head" Oid::from_str accepts
issue_by_head_ref(name) ==
    LET k == Len(name)
    IN  IF k >= 2 /\ name[k] = "head"
        THEN IF OidFromStr(name[k - 1]).ok
             THEN FoundIssue(OidFromStr(name[k - 1]).id)
             ELSE Failure("OidFormatError", NoOid)
        ELSE Failure("MalFormedHeadReference", NoOid)

\* C16: issue_by_head_ref succeeds on a name, with issue id x, exactly when
\* of_ref classifies the name as the head of x; on every other name it
\* fails.
C16_HeadRefIffOfRef ==
    LET found == issue_by_head_ref(refname)
    IN  /\ found.ok <=> of_ref(refname).type = "Head"
        /\ found.ok => of_ref(refname) = Some(found.id, "Head")

\* ---------------------------------------------------------------- issues
\* RepositoryExt::issues: HeadRefsToIssuesIter yields one issue for every
\* reference matching **/dit/**/head; the number of times each id is
\* yielded
issues_iter ==
    LET found == references_glob(<<"**", "dit", "**", "head">>)
    IN  [i \in Commits |->
            Cardinality({n \in found : issue_by_head_ref(n) = FoundIssue(i)})]

\* C17: issues() yields every issue that has a head reference, local,
\* remote or both, exactly once, and yields nothing else.
C17_IssuesOnce ==
    \A i \in Commits : issues_iter[i] = IF heads(i) /= {} THEN 1 ELSE 0

\* ------------------------------------------------------ ValueAccumulator
\* the trailer values handed to an accumulator
TrailerValues == {"foo-bar", "baz", "bam"}

InitAccumulate ==
    /\ RepositoryInit
    /\ CodecInit
    /\ SelectingInit
    /\ FilteringInit
    /\ ParsingInit
    /\ SplittingInit
    /\ DeletingInit
    /\ ReferringInit
    /\ accumulator \in {from_policy(p) : p \in Policies}
    /\ processed = <<>>

Process(new_value) ==
    /\ Len(processed) < MaxValues
    /\ accumulator' = process(accumulator, new_value)
    /\ processed' = Append(processed, new_value)
    /\ UNCHANGED <<parents, refs, last, nops, refname, classified,
                   selecting, filtering, parsing, splitting, deleting, referring>>

NextAccumulate == \E v \in TrailerValues : Process(v)

SpecAccumulate == InitAccumulate /\ [][NextAccumulate]_vars

\* C18: an accumulator with the policy Latest retains exactly the first
\* value it processed and yields at most that one; with the policy List it
\* retains every value it processed, in the order of processing.
C18_Retains ==
    /\ accumulator.policy = "Latest" =>
          into_iter(accumulator) =
              IF processed = <<>> THEN <<>> ELSE <<processed[1]>>
    /\ accumulator.policy = "List" => into_iter(accumulator) = processed

C18_Witness ==
    /\ accumulator.policy = "Latest"
    /\ Len(processed) >= 2
    /\ processed[2] /= processed[1]
    /\ into_iter(accumulator) = <<processed[1]>>

\* ------------------------------------------------------------- select_ref
\* the head references of one issue: the local one and its copies
HeadCandidates ==
    {HeadName(1)} \cup {RemoteName(r, HeadName(1)) : r \in {"origin", "upstream", "fork"}}

\* From<&str> for RemotePriorization: a comma separated list, never empty
PrioLists ==
    UNION {[1..n -> {"origin", "upstream", "*"}] : n \in 1..MaxPrios}

InitSelect ==
    /\ RepositoryInit
    /\ CodecInit
    /\ AccumulationInit
    /\ FilteringInit
    /\ ParsingInit
    /\ SplittingInit
    /\ DeletingInit
    /\ ReferringInit
    /\ candidates = <<>>
    /\ priorization \in PrioLists
    /\ selection = [done |-> FALSE, ref |-> NoRef]

\* the iterator handed to select_ref yields one more reference
AddCandidate(n) ==
    /\ ~selection.done
    /\ Len(candidates) < MaxCandidates
    /\ n \notin Range(candidates)
    /\ candidates' = Append(candidates, n)
    /\ UNCHANGED <<parents, refs, last, nops, refname, classified,
                   accumulation, priorization, selection, filtering, parsing, splitting, deleting, referring>>

Select ==
    /\ ~selection.done
    /\ selection' = [done |-> TRUE, ref |-> select_ref(candidates, priorization)]
    /\ UNCHANGED <<parents, refs, last, nops, refname, classified,
                   accumulation, candidates, priorization, filtering, parsing, splitting, deleting, referring>>

NextSelect ==
    \/ \E n \in HeadCandidates : AddCandidate(n)
    \/ Select

SpecSelect == InitSelect /\ [][NextSelect]_vars

\* entry k of the priorization matches the remote of the remote reference n
EntryMatches(k, n) ==
    priorization[k] = "*" \/ priorization[k] = n[3]

\* the candidates that may be selected: local ones, and remote ones whose
\* remote some entry matches
Qualifying ==
    {n \in Range(candidates) :
        IsLocal(n) \/ \E k \in DOMAIN priorization : EntryMatches(k, n)}

EarliestEntry(n) ==
    CHOOSE k \in DOMAIN priorization :
        EntryMatches(k, n) /\ \A j \in 1..(k - 1) : ~EntryMatches(j, n)

\* C20: select_ref returns the local head whenever it is among the
\* candidates; otherwise a remote reference whose remote matches the
\* earliest entry of the priorization ('*' matches any remote); a reference
\* whose remote matches no entry is never selected; and nothing is returned
\* when no candidate qualifies.
C20_SelectRef ==
    selection.done =>
        LET locals == {n \in Range(candidates) : IsLocal(n)}
            ref == selection.ref
        IN  /\ locals /= {} => ref \in locals
            /\ locals = {} /\ Qualifying /= {} =>
                  /\ ref \in Qualifying
                  /\ \A n \in Qualifying : EarliestEntry(ref) <= EarliestEntry(n)
            /\ ref /= NoRef => ref \in Qualifying
            /\ Qualifying = {} => ref = NoRef

C20_Witness ==
    /\ selection.done
    /\ \A n \in Range(candidates) : ~IsLocal(n)
    /\ Len(candidates) >= 3
    /\ candidates[1] \in Qualifying
    /\ selection.ref \in Qualifying
    /\ EarliestEntry(selection.ref) < EarliestEntry(candidates[1])
    /\ Range(candidates) \ Qualifying /= {}

\* -------------------------------------------------------- MetadataFilter
Ann == <<"a", "n", "n">>
Bob == <<"b", "o", "b">>
Open == <<"o", "p", "e", "n">>
Closed == <<"c", "l", "o", "s", "e", "d">>

Authors ==
    {[name |-> Ann, email |-> <<"a", "@", "x">>],
     [name |-> Bob, email |-> <<"b", "@", "x">>]}

\* the trailer blocks of the messages written
TrailerLists ==
    {<<>>,
     <<Trailer_new("Dit-status", Closed)>>,
     <<Trailer_new("Dit-type", <<"0", "7">>), Trailer_new("Dit-status", Open)>>}

Contents == [author : Authors, trailers : TrailerLists]

\* the filter rules given on the command line
Atoms ==
    {FilterSpec(a[1], a[2], negated) :
        a \in {<<"status", Equals(from_slice(Closed))>>,
               <<"status", AnyValue>>,
               <<"type", Equals(from_slice(<<"7">>))>>,
               <<"reporter-name", Contains(<<"n", "n">>)>>},
        negated \in BOOLEAN}

FilterSpecs == UNION {[1..n -> Atoms] : n \in 0..MaxAtoms}

FilterPrios == {<<"*">>, <<"upstream">>}

MayWrite == ~filtered.done /\ Len(parents) < MaxMessages

\* new_impl: an issue whose initial message has the given author and trailers
New(c) ==
    /\ MayWrite
    /\ LET id == Len(parents) + 1
       IN  /\ parents' = Append(parents, <<>>)
           /\ content' = Append(content, c)
           /\ refs' = SetRef(HeadName(id), id)
    /\ UNCHANGED <<last, nops, refname, classified, accumulation, selecting,
                   filtered, parsing, splitting, deleting, referring>>

\* reply_impl: a message added to the issue found for its parent
Reply(parent, c) ==
    /\ MayWrite
    /\ \E found \in issue_with_message(parent) :
          /\ found.ok
          /\ LET id == Len(parents) + 1
             IN  /\ parents' = Append(parents, <<parent>>)
                 /\ content' = Append(content, c)
                 /\ refs' = SetRef(LeafName(found.id, id), id)
    /\ UNCHANGED <<last, nops, refname, classified, accumulation, selecting,
                   filtered, parsing, splitting, deleting, referring>>

\* tag_impl with --set-status: a message holding the trailers on top of the
\* selected head, which the local head is then set to
SetStatus(i, selected, c) ==
    /\ MayWrite
    /\ c.trailers /= <<>>
    /\ selected \in selectable(heads(i), <<"*">>)
    /\ selected /= NoRef
    /\ LET id == Len(parents) + 1
       IN  /\ parents' = Append(parents, <<refs[selected]>>)
           /\ content' = Append(content, c)
           /\ refs' = SetRef(HeadName(i), id)
    /\ UNCHANGED <<last, nops, refname, classified, accumulation, selecting,
                   filtered, parsing, splitting, deleting, referring>>

\* fetch_impl bringing an issue of the remote repository: its initial
\* message and the copy of its head
FetchIssue(r, c) ==
    /\ MayWrite
    /\ LET id == Len(parents) + 1
       IN  /\ parents' = Append(parents, <<>>)
           /\ content' = Append(content, c)
           /\ refs' = SetRef(RemoteName(r, HeadName(id)), id)
    /\ UNCHANGED <<last, nops, refname, classified, accumulation, selecting,
                   filtered, parsing, splitting, deleting, referring>>

\* fetch_impl updating the copy of a head the remote repository has moved
FetchHead(r, i, m) ==
    /\ ~filtered.done
    /\ refs' = SetRef(RemoteName(r, HeadName(i)), m)
    /\ UNCHANGED <<parents, content, last, nops, refname, classified,
                   accumulation, selecting, filtered, parsing, splitting, deleting, referring>>

\* the sequences of messages the walk from the selected head can yield
walks_from(i, selected) ==
    IF selected = NoRef THEN {<<>>}
    ELSE Yields(messages_from(i, refs[selected]))

\* MetadataFilter::filter applied to an issue, with the head select_ref
\* returned and the messages the walk from it yielded
Filter(i, prios, spec, selected, walked) ==
    /\ filtered' = [done |-> TRUE, issue |-> i, prios |-> prios,
                    spec |-> spec, head |-> selected, walked |-> walked,
                    result |-> filter(MetadataFilter_new(prios, spec), i, walked)]
    /\ UNCHANGED <<parents, refs, last, nops, refname, classified,
                   accumulation, selecting, content, parsing, splitting, deleting, referring>>

NextFilter ==
    \/ \E c \in Contents : New(c)
    \/ \E parent \in Commits, c \in Contents : Reply(parent, c)
    \/ \E i \in Issues, selected \in DOMAIN refs, c \in Contents :
          SetStatus(i, selected, c)
    \/ \E r \in Remotes, c \in Contents : FetchIssue(r, c)
    \/ \E r \in Remotes, i \in Issues, m \in Commits : FetchHead(r, i, m)
    \/ ~filtered.done /\
          \E i \in Issues, prios \in FilterPrios :
            \E selected \in selectable(heads(i), prios) :
              \E walked \in walks_from(i, selected), spec \in FilterSpecs :
                Filter(i, prios, spec, selected, walked)

SpecFilter == Init /\ [][NextFilter]_vars

\* the values the filter has accumulated for the trailer key of an atom:
\* both keys accumulate with the policy Latest, which keeps the first value
\* met on the walk
AccumulatedValues(atom) ==
    LET key == IF atom.key = "status" THEN "Dit-status" ELSE "Dit-type"
        met == trailers_of(filtered.walked)
        hits == {j \in DOMAIN met : met[j].key = key}
    IN  IF hits = {} THEN {}
        ELSE {met[CHOOSE j \in hits : \A h \in hits : j <= h].value}

\* the field of the author of the initial message an atom is about
ReporterField(atom) ==
    LET author == content[filtered.issue].author
    IN  from_slice(IF atom.key = "reporter-name" THEN author.name
                   ELSE author.email)

Xor(a, b) == a /= b

\* the heads of an issue that are local or belong to a remote that some
\* entry of the priorization names
Selectable(i, prios) ==
    {n \in heads(i) :
        IsLocal(n) \/ \E k \in DOMAIN prios : prios[k] \in {"*", n[3]}}

AtomSatisfied(atom) ==
    IF IsNonTrailer(atom)
    THEN Xor(matches(atom.matcher, ReporterField(atom)), atom.negated)
    ELSE Xor(\E v \in AccumulatedValues(atom) : matches(atom.matcher, v),
             atom.negated)

\* C19: filter(issue) is true exactly when every non-trailer atom satisfies
\* (its matcher matches the field of the initial message's author) XOR
\* negated, and every trailer atom satisfies (its matcher matches at least
\* one value accumulated for its key over the messages walked from the
\* selected head) XOR negated; the empty filter is true of every issue.
C19_FilterVerdict ==
    filtered.done =>
        /\ filtered.result <=>
              \A k \in DOMAIN filtered.spec : AtomSatisfied(filtered.spec[k])
        /\ filtered.spec = <<>> => filtered.result
        /\ filtered.head /= NoRef =>
              /\ filtered.head \in Selectable(filtered.issue, filtered.prios)
              /\ filtered.walked /= <<>>
              /\ filtered.walked[1] = refs[filtered.head]
              /\ \A k \in 2..Len(filtered.walked) :
                    IsFirstParent(filtered.walked[k - 1], filtered.walked[k])
        /\ filtered.head = NoRef =>
              /\ Selectable(filtered.issue, filtered.prios) = {}
              /\ filtered.walked = <<>>

C19_Witness ==
    /\ filtered.done
    /\ filtered.result
    /\ Len(filtered.walked) = 2
    /\ Len(filtered.spec) = 2
    /\ IsNonTrailer(filtered.spec[1])
    /\ IsTrailer(filtered.spec[2])
    /\ filtered.spec[2].negated
    /\ filtered.spec[2].matcher.kind = "Equals"
    /\ AccumulatedValues(filtered.spec[2]) /= {}
    /\ \E j \in DOMAIN trailers_of(filtered.walked) :
          /\ trailers_of(filtered.walked)[j].key = "Dit-status"
          /\ trailers_of(filtered.walked)[j].value \notin
                AccumulatedValues(filtered.spec[2])

\* ------------------------------------------------- the trailer round trip
\* The characters a key is drawn from: two of the class [[:alnum:]-] and
\* one outside it.
KeyAlphabet == {"a", "-", ":"}

\* The characters a string value is drawn from.
ValueAlphabet == {"a", "1", "-", " ", "\n"}

MaxKeyLen == 2
MaxValueLen == 3

TextsOver(alphabet, n) == UNION {[1..k -> alphabet] : k \in 0..n}

IntValues == {[int |-> TRUE, i |-> n, s |-> <<>>] : n \in -2..11}

StringValues ==
    {[int |-> FALSE, i |-> 0, s |-> t] : t \in TextsOver(ValueAlphabet, MaxValueLen)}

Trailers ==
    {[key |-> k, value |-> v] :
        k \in TextsOver(KeyAlphabet, MaxKeyLen), v \in IntValues \cup StringValues}

InitParse ==
    /\ RepositoryInit
    /\ CodecInit
    /\ AccumulationInit
    /\ SelectingInit
    /\ FilteringInit
    /\ SplittingInit
    /\ DeletingInit
    /\ ReferringInit
    /\ given \in Trailers
    /\ formatted = NotFormatted
    /\ parsed = NotParsed

\* Trailer::to_string
Format ==
    /\ ~formatted.done
    /\ formatted' = [done |-> TRUE, text |-> fmt(given)]
    /\ UNCHANGED <<parents, refs, last, nops, refname, classified,
                   accumulation, selecting, filtering, given, parsed,
                   splitting, deleting, referring>>

\* Trailer::from_str of the formatted text
Parse ==
    /\ formatted.done
    /\ ~parsed.done
    /\ parsed' = [done |-> TRUE] @@ from_str(formatted.text)
    /\ UNCHANGED <<parents, refs, last, nops, refname, classified,
                   accumulation, selecting, filtering, given, formatted,
                   splitting, deleting, referring>>

NextParse == Format \/ Parse

SpecParse == InitParse /\ [][NextParse]_vars

IsKey(k) == k /= <<>> /\ \A n \in DOMAIN k : k[n] \in KeyChars

NoNewline(v) == v.int \/ \A n \in DOMAIN v.s : v.s[n] /= "\n"

\* C21 as stated: every trailer with a well-formed key and a value without
\* a newline is parsed back from its formatted text unchanged.
C21_Original ==
    (parsed.done /\ IsKey(given.key) /\ NoNewline(given.value))
        => (parsed.ok /\ parsed.trailer = given)

\* the value is what from_slice makes of some trimmed text: a string that
\* neither starts nor ends with whitespace and does not read as an integer
Canonical(v) == v.int \/ (trim(v.s) = v.s /\ ~IsNumber(v.s))

\* C21: a trailer with a well-formed key and a value without a newline is
\* parsed back from its formatted text unchanged, Int/String classification
\* included, provided a string value has no leading or trailing whitespace
\* and does not parse as an integer.
C21_RoundTrip ==
    (parsed.done /\ IsKey(given.key) /\ NoNewline(given.value)
                 /\ Canonical(given.value))
        => (parsed.ok /\ parsed.trailer = given)

C21_Witness ==
    /\ parsed.done /\ parsed.ok
    /\ given.key = <<"a", "-">>
    /\ ~given.value.int /\ given.value.s = <<"a", " ", "1">>
    /\ parsed.trailer = given
\* ------------------------------------------------ the blocks of a message
MaxLines == 3

\* The lines a message is made of: blank ones, trailers, plain text,
\* continuation lines indented by a blank or by a tab, and an indented
\* line that looks like a trailer.
LineSamples ==
    { <<>>,
      <<" ">>,
      <<"a", ":", " ", "b">>,
      <<"a", "=", "1", " ">>,
      <<"a", " ", "b">>,
      <<" ", "b">>,
      <<"\t", "b">>,
      <<" ", "a", ":", "b">> }

Documents == UNION {[1..n -> LineSamples] : n \in 0..MaxLines}

InitBlocks ==
    /\ RepositoryInit
    /\ CodecInit
    /\ AccumulationInit
    /\ SelectingInit
    /\ FilteringInit
    /\ ParsingInit
    /\ DeletingInit
    /\ ReferringInit
    /\ document \in Documents
    /\ unread = document
    /\ blocks = <<>>

Drained == blocks /= <<>> /\ blocks[Len(blocks)] = NoBlock

\* one call of Blocks::next
NextBlock ==
    /\ ~Drained
    /\ unread' = Blocks_next(unread).rest
    /\ blocks' = Append(blocks, Blocks_next(unread).block)
    /\ UNCHANGED <<parents, refs, last, nops, refname, classified,
                   accumulation, selecting, filtering, parsing, document,
                   deleting, referring>>

NextBlocks == NextBlock

SpecBlocks == InitBlocks /\ [][NextBlocks]_vars

IsBlank(line) == trim_right(line) = <<>>

\* the maximal runs of non-blank lines of the document, as pairs of the
\* first and the last line number
Runs ==
    {run \in (DOMAIN document) \X (DOMAIN document) :
        /\ run[1] <= run[2]
        /\ \A j \in run[1]..run[2] : ~IsBlank(document[j])
        /\ run[1] = 1 \/ IsBlank(document[run[1] - 1])
        /\ run[2] = Len(document) \/ IsBlank(document[run[2] + 1])}

\* the k-th run in document order
Run(k) ==
    CHOOSE run \in Runs : Cardinality({o \in Runs : o[1] < run[1]}) = k - 1

IsTrailerLine(line) == from_str(trim_right(line)).ok

\* an indented line that follows another line of its block
IsContinuation(run, j) == j > run[1] /\ document[j][1] \in Whitespace

\* C22: every block returned is Text if its run of lines holds a line that
\* is neither a trailer nor an indented continuation line, and then carries
\* no trailer; it is Trailer if every line of the run is a trailer or an
\* indented continuation line.
C22_Classification ==
    \A k \in DOMAIN blocks :
        blocks[k] /= NoBlock =>
            LET run == Run(k)
                good(j) == IsTrailerLine(document[j]) \/ IsContinuation(run, j)
            IN  /\ (\E j \in run[1]..run[2] : ~good(j))
                        => (blocks[k].kind = "Text" /\ blocks[k].trailers = <<>>)
                /\ (\A j \in run[1]..run[2] : good(j))
                        => blocks[k].kind = "Trailer"
\* ------------------------------------------- the reference deleting iterator
MaxRefs == 3

\* the references a repository with one issue and one reply may hold
RefSamples ==
    {HeadName(1), LeafName(1, 1), LeafName(1, 2), RemoteName("origin", HeadName(1))}

\* ReferenceDeletingIter::from(items), over distinct references of the
\* repository
InitDelete ==
    /\ parents = <<<<>>, <<1>>>>
    /\ \E names \in SUBSET RefSamples :
          /\ refs = [n \in names |-> IF n = LeafName(1, 2) THEN 2 ELSE 1]
          /\ \E given_refs \in SUBSET names :
                /\ Cardinality(given_refs) <= MaxRefs
                /\ wrapped \in Orderings(given_refs)
    /\ last = NoOp
    /\ nops = 0
    /\ CodecInit
    /\ AccumulationInit
    /\ SelectingInit
    /\ FilteringInit
    /\ ParsingInit
    /\ SplittingInit
    /\ ReferringInit
    /\ inner = wrapped
    /\ attempts = <<>>
    /\ yielded = <<>>

\* the item of a failed delete, and the None of an exhausted iterator
CannotDeleteReference(name) == [some |-> TRUE, err |-> "CannotDeleteReference", name |-> name]
NoItem == [some |-> FALSE, err |-> "", name |-> <<>>]

\* Reference::delete called by by on the first n of the references left;
\* failed holds the positions at which it failed
Deletes(n, failed, by) ==
    [k \in 1..n |-> [name |-> inner[k], ok |-> k \notin failed, by |-> by]]

Exhausted == yielded /= <<>> /\ yielded[Len(yielded)] = NoItem

\* a next() that gives up the references left once a delete has failed
DeletingNext_Fatal(n) ==
    /\ ~Exhausted
    /\ n \in 0..Len(inner)
    /\ LET failed == IF n < Len(inner) THEN {n + 1} ELSE {}
           taken == IF n < Len(inner) THEN n + 1 ELSE n
       IN  /\ attempts' = attempts \o Deletes(taken, failed, "next")
           /\ refs' = DeleteRefs({inner[k] : k \in 1..n})
           /\ inner' = <<>>
           /\ yielded' = Append(yielded, IF n < Len(inner)
                                         THEN CannotDeleteReference(inner[n + 1])
                                         ELSE NoItem)
    /\ UNCHANGED <<parents, last, nops, refname, classified,
                   accumulation, selecting, filtering, parsing, splitting, wrapped,
                   referring>>

\* ReferenceDeletingIter::next: the deletes of the next n references
\* succeed; the one after them fails and is returned as an error, or there
\* is none left and None is returned
DeletingNext(n) ==
    /\ ~Exhausted
    /\ n \in 0..Len(inner)
    /\ LET failed == IF n < Len(inner) THEN {n + 1} ELSE {}
           taken == IF n < Len(inner) THEN n + 1 ELSE n
       IN  /\ attempts' = attempts \o Deletes(taken, failed, "next")
           /\ refs' = DeleteRefs({inner[k] : k \in 1..n})
           /\ inner' = SubSeq(inner, taken + 1, Len(inner))
           /\ yielded' = Append(yielded, IF n < Len(inner)
                                         THEN CannotDeleteReference(inner[n + 1])
                                         ELSE NoItem)
    /\ UNCHANGED <<parents, last, nops, refname, classified,
                   accumulation, selecting, filtering, parsing, splitting, wrapped,
                   referring>>

\* ReferenceDeletingIter::delete_ignoring: the iterator is drained and
\* its items are dropped
DeleteIgnoring(failed) ==
    /\ ~Exhausted
    /\ inner /= <<>>
    /\ attempts' = attempts \o Deletes(Len(inner), failed, "delete_ignoring")
    /\ refs' = DeleteRefs({inner[k] : k \in (1..Len(inner)) \ failed})
    /\ inner' = <<>>
    /\ UNCHANGED <<parents, last, nops, refname, classified,
                   accumulation, selecting, filtering, parsing, splitting,
                   wrapped, yielded, referring>>

NextDelete ==
    \/ \E n \in 0..MaxRefs : DeletingNext(n)
    \/ \E failed \in SUBSET (1..MaxRefs) : DeleteIgnoring(failed)

SpecDelete == InitDelete /\ [][NextDelete]_vars

\* the names in a sequence of delete calls
Names(calls) == [k \in DOMAIN calls |-> calls[k].name]

\* the items next() has to return for a sequence of delete calls: one
\* error for each call made by next() that failed
RECURSIVE Reported(_)
Reported(calls) ==
    IF calls = <<>> THEN <<>>
    ELSE LET call == calls[Len(calls)]
             before == Reported(SubSeq(calls, 1, Len(calls) - 1))
         IN  IF call.by = "next" /\ ~call.ok
             THEN Append(before, CannotDeleteReference(call.name))
             ELSE before

\* the items returned, without the final None
Items == IF Exhausted THEN SubSeq(yielded, 1, Len(yielded) - 1) ELSE yielded

\* C23: the references deleted so far and those still left are the wrapped
\* sequence, each once and in order; the items returned are exactly one
\* CannotDeleteReference for each failed delete made by next(), none for a
\* successful one and none for delete_ignoring; None is returned, and
\* delete_ignoring ends, only when every reference has been tried.
C23_Deleting ==
    /\ Names(attempts) \o inner = wrapped
    /\ Items = Reported(attempts)
    /\ Exhausted => inner = <<>>
    /\ \A k \in DOMAIN attempts :
          attempts[k].by = "delete_ignoring" => inner = <<>>
    /\ \A k \in DOMAIN attempts : attempts[k].ok => attempts[k].name \notin DOMAIN refs

C23_Witness ==
    /\ Exhausted
    /\ Len(wrapped) = 3
    /\ Len(yielded) = 2
    /\ yielded[1] = CannotDeleteReference(wrapped[2])
    /\ attempts[1].ok /\ ~attempts[2].ok /\ attempts[3].ok
    /\ wrapped[2] \in DOMAIN refs /\ wrapped[3] \notin DOMAIN refs
\* --------------------------------------------- references referring to
MaxWatched == 3

\* two references to one commit, one to its reply, one to an unrelated
\* commit
TestRefs ==
    (<<"refs", "test", "1a">> :> 1) @@ (<<"refs", "test", "1b">> :> 1)
    @@ (<<"refs", "test", "2a">> :> 2) @@ (<<"refs", "test", "3a">> :> 3)

\* RefsReferringTo::new(messages) over a revwalk with any commits pushed;
\* an unsorted revwalk emits its commits in an order of its choosing
InitReferring ==
    /\ parents = <<<<>>, <<1>>, <<>>>>
    /\ refs = TestRefs
    /\ last = NoOp
    /\ nops = 0
    /\ CodecInit
    /\ AccumulationInit
    /\ SelectingInit
    /\ FilteringInit
    /\ ParsingInit
    /\ SplittingInit
    /\ DeletingInit
    /\ \E tips \in SUBSET (1..3) :
          /\ revwalk = Revwalk(tips, {}, FALSE)
          /\ commits_left \in Orderings(Reach(tips))
    /\ watch_log = <<>>
    /\ watch_map = <<>>
    /\ current_refs = <<>>
    /\ reported = <<>>

\* RefsReferringTo::watch_ref, called before the iteration starts
WatchRef(n) ==
    /\ reported = <<>>
    /\ watch_log' = Append(watch_log, n)
    /\ watch_map' =
          IF refs[n] \in DOMAIN watch_map
          THEN [watch_map EXCEPT ![refs[n]] = Append(@, n)]
          ELSE watch_map @@ (refs[n] :> <<n>>)
    /\ UNCHANGED <<parents, refs, last, nops, refname, classified,
                   accumulation, selecting, filtering, parsing, splitting,
                   deleting, revwalk, commits_left, current_refs, reported>>

SomeRef(n) == [some |-> TRUE, name |-> n]
NoRefItem == [some |-> FALSE, name |-> <<>>]

Depleted == reported /= <<>> /\ reported[Len(reported)] = NoRefItem

\* the positions in the revwalk's output of the commits some watched
\* reference points to
Hits == {k \in DOMAIN commits_left : commits_left[k] \in DOMAIN watch_map}

\* RefsReferringTo::next
ReferringNext ==
    /\ ~Depleted
    /\ IF current_refs /= <<>>
       THEN /\ reported' = Append(reported, SomeRef(current_refs[Len(current_refs)]))
            /\ current_refs' = SubSeq(current_refs, 1, Len(current_refs) - 1)
            /\ UNCHANGED <<watch_map, commits_left>>
       ELSE IF DOMAIN watch_map = {}
       THEN /\ reported' = Append(reported, NoRefItem)
            /\ UNCHANGED <<watch_map, commits_left, current_refs>>
       ELSE IF Hits = {}
       THEN /\ reported' = Append(reported, NoRefItem)
            /\ commits_left' = <<>>
            /\ UNCHANGED <<watch_map, current_refs>>
       ELSE LET k == CHOOSE h \in Hits : \A o \in Hits : h <= o
                new_refs == watch_map[commits_left[k]]
            IN  /\ commits_left' = SubSeq(commits_left, k + 1, Len(commits_left))
                /\ watch_map' = [id \in DOMAIN watch_map \ {commits_left[k]} |->
                                    watch_map[id]]
                /\ reported' = Append(reported, SomeRef(new_refs[Len(new_refs)]))
                /\ current_refs' = SubSeq(new_refs, 1, Len(new_refs) - 1)
    /\ UNCHANGED <<parents, refs, last, nops, refname, classified,
                   accumulation, selecting, filtering, parsing, splitting,
                   deleting, revwalk, watch_log>>

NextReferring ==
    \/ Len(watch_log) < MaxWatched /\ \E n \in DOMAIN refs : WatchRef(n)
    \/ ReferringNext

SpecReferring == InitReferring /\ [][NextReferring]_vars

\* how often next() has returned the reference n
TimesReported(n) == Cardinality({k \in DOMAIN reported : reported[k] = SomeRef(n)})

\* C24: once the iterator is drained, a reference has been yielded if and
\* only if it was watched and the revwalk emits its target, so all watched
\* references of an emitted commit are yielded and no other reference is;
\* and no reference is ever yielded more than once.
C24_ReferringRefs ==
    /\ Depleted =>
          \A n \in DOMAIN refs :
              TimesReported(n) > 0
                  <=> (n \in Range(watch_log) /\ refs[n] \in Emitted(revwalk))
    /\ \A n \in DOMAIN refs : TimesReported(n) <= 1
\* ------------------------------------------------ collection, continued
\* the references a collection over issues takes into account
Considered(issues, consider_remote_refs) ==
    LocalHeads(issues) \cup LocalLeaves(issues)
    \cup (IF consider_remote_refs THEN RemoteRefs(issues) ELSE {})

\* C25: a local leaf L is reported by into_refs only if the target of L is
\* the target of, or an ancestor of the target of, a considered reference
\* other than L.
C25_DistinctCover ==
    \A issues \in Collections, cr \in BOOLEAN, ch \in CollectionSpecs :
        \A L \in LocalLeaves(issues) \cap into_refs(issues, cr, ch) :
            \E n \in Considered(issues, cr) \ {L} :
                AncestorOrEqual(refs[L], refs[n])

\* an issue whose head is at its initial message and whose only leaf is
\* not reported, next to an issue with a reported leaf
C25_Witness ==
    \E i \in Issues, j \in Issues :
        /\ has_local_head(i) /\ refs[HeadName(i)] = i
        /\ Cardinality(LocalRefsOf(i, "Leaf")) = 1
        /\ LocalRefsOf(i, "Leaf") \cap into_refs(Issues, FALSE, "Never") = {}
        /\ LocalRefsOf(j, "Leaf") \cap into_refs(Issues, FALSE, "Never") /= {}

\* the commits reachable from the references named
ReachableFrom(names) == Reach({refs[n] : n \in names})

\* C26 as stated: a collection that does not consider remote references
\* strands no message: every commit that was reachable from a local
\* reference of the collected issues is reachable from a local reference
\* that is left.
C26_Original ==
    [][(IsGcStep /\ ~last'.remote) =>
          \A c \in ReachableFrom(LocalHeads(last'.issues) \cup LocalLeaves(last'.issues)) :
              \E n \in DOMAIN refs' : IsLocal(n) /\ c \in Reach({refs'[n]})]_vars

\* C26: after a collection that does not consider remote references, every
\* commit that was reachable from a local reference of the collected issues
\* is reachable from a local reference that is left, or, with collect_heads
\* = BackedByRemoteHead only, from a remote head of a collected issue.
C26_NoStranding ==
    [][(IsGcStep /\ ~last'.remote) =>
          \A c \in ReachableFrom(LocalHeads(last'.issues) \cup LocalLeaves(last'.issues)) :
              \/ \E n \in DOMAIN refs' : IsLocal(n) /\ c \in Reach({refs'[n]})
              \/ /\ last'.heads = "BackedByRemoteHead"
                 /\ c \in ReachableFrom(RemoteHeads(last'.issues))]_vars

\* a collection without remote references has deleted a leaf and kept the
\* heads
C26_Witness ==
    /\ last.op = "gc" /\ ~last.remote /\ last.heads = "Never"
    /\ \E n \in last.ret : of_ref(n).type = "Leaf"
    /\ \E n \in DOMAIN refs : IsLocal(n) /\ of_ref(n).type = "Leaf"

\* C27: a collection with the default policies changes what no collected
\* issue shows: messages(i) yields the same commits after the deletion of
\* the reported references as before.
C27_ViewKept ==
    [][(IsGcStep /\ ~last'.remote /\ last'.heads = "Never") =>
          \A i \in last'.issues :
              \E before \in SUBSET Commits :
                  before = Emitted(messages(i)) /\ before = Emitted(messages(i))']_vars

\* C28: a collection is idempotent: after the deletion of what into_refs
\* reported, into_refs over the same issues with the same policies reports
\* nothing.
C28_Idempotent ==
    [][IsGcStep =>
          \A issues \in Collections, cr \in BOOLEAN, ch \in CollectionSpecs :
              (issues = last'.issues /\ cr = last'.remote /\ ch = last'.heads)
                  => into_refs(issues, cr, ch)' = {}]_vars

\* a collection has deleted a head and a leaf
C28_Witness ==
    /\ last.op = "gc"
    /\ \E n \in last.ret : of_ref(n).type = "Head"
    /\ \E n \in last.ret : of_ref(n).type = "Leaf"
    /\ last.ret \cap DOMAIN refs = {}

\* C29: a collection, whatever its policies, leaves every issue
\* discoverable: find_issue succeeds afterwards for every issue it
\* succeeded for before.
C29_StillFound ==
    [][IsGcStep =>
          \A i \in Commits : find_issue(i) => find_issue(i)']_vars

\* a collection has deleted the local head of an issue, which is still
\* found through its remote head
C29_Witness ==
    /\ last.op = "gc"
    /\ \E i \in last.issues :
          /\ HeadName(i) \in last.ret
          /\ ~has_local_head(i)
          /\ find_issue(i)

\* ------------------------------------------------ the messages of an issue
\* the first-parent chain from m down to and including i, for i on it
RECURSIVE Chain(_, _)
Chain(m, i) ==
    IF m = i \/ parents[m] = <<>> THEN <<m>>
    ELSE <<m>> \o Chain(parents[m][1], i)

\* the first-parent chain of m leads to i
LeadsTo(m, i) == i \in Emitted(first_parent_messages(m))

\* C30 as stated: for an issue i with a head and a message m whose
\* first-parent chain leads to i, issue_messages_iter(m) and
\* i.messages_from(m) yield the same sequence, the chain from m to i.
C30_Original ==
    \A i \in Issues, m \in Commits :
        LeadsTo(m, i) =>
            /\ issue_messages_iter(m) = Yields(messages_from(i, m))
            /\ issue_messages_iter(m) = {Chain(m, i)}

\* no commit of the chain from m above i is an issue
FirstIssueOn(m, i) ==
    \A k \in DOMAIN Chain(m, i) : find_issue(Chain(m, i)[k]) => Chain(m, i)[k] = i

\* C30: for an issue i with a head and a message m whose first-parent
\* chain leads to i without passing through another issue,
\* issue_messages_iter(m) and i.messages_from(m) yield the same sequence,
\* the chain from m to i.
C30_SameChain ==
    \A i \in Issues, m \in Commits :
        (LeadsTo(m, i) /\ FirstIssueOn(m, i)) =>
            /\ issue_messages_iter(m) = Yields(messages_from(i, m))
            /\ issue_messages_iter(m) = {Chain(m, i)}

\* an issue whose initial message has a parent, and a reply to it: both
\* walks stop at the initial message
C30_Witness ==
    \E i \in Issues, m \in Commits :
        /\ parents[i] /= <<>>
        /\ LeadsTo(m, i) /\ FirstIssueOn(m, i)
        /\ Len(Chain(m, i)) = 2
        /\ issue_messages_iter(m) = {Chain(m, i)}
====
